---- MODULE Spec2Model ----
(***************************************************************************)
(* The rule language subsystem of the IoT device agent:                    *)
(*   src/agents/rules/ruleEngine.py   RuleEngine (parser, block tracker,   *)
(*                                    expression evaluation, dispatch)     *)
(*   src/agents/rules/rule_agent.py   RuleAgent (batch loop)               *)
(*                                                                         *)
(* Text is modelled as it is in the program: a string is a sequence of     *)
(* one-character strings, and the string methods the engine uses (strip,   *)
(* split, startswith, in, replace, the condition regex) are operators on   *)
(* such sequences.                                                         *)
(***************************************************************************)
EXTENDS Integers, Sequences, FiniteSets, TLC

(***************************************************************************)
(* Bounds of the model.                                                    *)
(***************************************************************************)
\* longest batch of rules that load_rules returns
MaxRules == 2
\* deepest nesting of IF blocks that is explored
MaxDepth == 2
\* deepest nesting of IF blocks that is explored in batches of several rules
MaxBatchDepth == 1
\* longest list of recorded actions that is explored
MaxActions == 2
\* longest argument list of a library call that is explored
MaxArgs == 3
\* longest context that is handed to the substitution loop on its own
MaxContext == 3
\* most assignment lines that one engine evaluates one after the other on their own
MaxAssignments == 2
\* most rules that rules.json holds
MaxStored == 2

(***************************************************************************)
(* Characters and the str methods used by the engine.                      *)
(***************************************************************************)
UpperChars == {"A", "B", "C", "D", "E", "F", "G", "H", "I", "J", "K", "L", "M", "N", "O", "P", "Q", "R", "S", "T", "U", "V", "W", "X", "Y", "Z"}

LowerChars == {"a", "b", "c", "d", "e", "f", "g", "h", "i", "j", "k", "l", "m", "n", "o", "p", "q", "r", "s", "t", "u", "v", "w", "x", "y", "z"}

DigitChars == <<"0", "1", "2", "3", "4", "5", "6", "7", "8", "9">>

WhiteChars == {" "}

\* str.isupper(): at least one cased character and no lowercase one
IsUpper(w) ==
    /\ \E i \in 1..Len(w) : w[i] \in UpperChars
    /\ \A i \in 1..Len(w) : w[i] \notin LowerChars

\* str.islower(): at least one cased character and no uppercase one
IsLower(w) ==
    /\ \E i \in 1..Len(w) : w[i] \in LowerChars
    /\ \A i \in 1..Len(w) : w[i] \notin UpperChars

\* s[i:] of Python, with i counted from 1
Tail_from(s, i) == SubSeq(s, i, Len(s))

\* str.startswith(p)
StartsWith(s, p) == Len(s) >= Len(p) /\ SubSeq(s, 1, Len(p)) = p

\* str.find(p), counted from 1; 0 when p does not occur
Find(s, p) ==
    LET hits == {i \in 1..(Len(s) - Len(p) + 1) : SubSeq(s, i, i + Len(p) - 1) = p}
    IN  IF hits = {} THEN 0 ELSE CHOOSE i \in hits : \A j \in hits : i <= j

\* p in s
Contains(s, p) == Find(s, p) # 0

\* str.replace(old, new): every non-overlapping occurrence, left to right
RECURSIVE Replace(_, _, _)
Replace(s, old, new) ==
    LET i == Find(s, old)
    IN  IF old = <<>> \/ i = 0 THEN s
        ELSE SubSeq(s, 1, i - 1) \o new \o Replace(Tail_from(s, i + Len(old)), old, new)

\* str.strip()
RECURSIVE Strip(_)
Strip(s) ==
    IF s = <<>> THEN s
    ELSE IF s[1] \in WhiteChars THEN Strip(Tail(s))
    ELSE IF s[Len(s)] \in WhiteChars THEN Strip(SubSeq(s, 1, Len(s) - 1))
    ELSE s

\* str.split(): the maximal runs of non-whitespace characters
RECURSIVE Split(_)
Split(s) ==
    LET t == Strip(s)
        ws == {i \in 1..Len(t) : t[i] \in WhiteChars}
        k == IF ws = {} THEN Len(t) + 1 ELSE CHOOSE i \in ws : \A j \in ws : i <= j
    IN  IF t = <<>> THEN <<>>
        ELSE <<SubSeq(t, 1, k - 1)>> \o Split(Tail_from(t, k))

\* str.split(sep, 1) for a separator that occurs in s: the text before and after its first occurrence
SplitOnce(s, sep) ==
    LET i == Find(s, sep)
    IN  <<SubSeq(s, 1, i - 1), Tail_from(s, i + Len(sep))>>

\* str(n) for an integer n
RECURSIVE IntToStr(_)
IntToStr(n) ==
    IF n < 0 THEN <<"-">> \o IntToStr(0 - n)
    ELSE IF n < 10 THEN <<DigitChars[n + 1]>>
    ELSE IntToStr(n \div 10) \o <<DigitChars[(n % 10) + 1]>>

DigitValue(c) == CHOOSE d \in 0..9 : DigitChars[d + 1] = c

IsDigits(w) == w # <<>> /\ \A i \in 1..Len(w) : \E d \in 1..10 : DigitChars[d] = w[i]

\* the value of a decimal integer literal
RECURSIVE StrToInt(_)
StrToInt(w) ==
    IF Len(w) = 1 THEN DigitValue(w[1])
    ELSE 10 * StrToInt(SubSeq(w, 1, Len(w) - 1)) + DigitValue(w[Len(w)])

(***************************************************************************)
(* Text constants of the engine.                                           *)
(***************************************************************************)
kw_IF == <<"I", "F">>

kw_THEN == <<"T", "H", "E", "N">>

kw_ELSE == <<"E", "L", "S", "E">>

kw_ELSEIF == <<"E", "L", "S", "E", "I", "F">>

kw_ENDIF == <<"E", "N", "D", "I", "F">>

alert_prefix == <<"a", "l", "e", "r", "t", ".">>

eq_sign == <<"=">>

amp_amp == <<"&", "&">>

bar_bar == <<"|", "|">>

word_and == <<"a", "n", "d">>

word_or == <<"o", "r">>

alert_email == <<"a", "l", "e", "r", "t", ".", "e", "m", "a", "i", "l">>

alert_sms == <<"a", "l", "e", "r", "t", ".", "s", "m", "s">>

alert_mail == <<"a", "l", "e", "r", "t", ".", "m", "a", "i", "l">>

alert_web == <<"a", "l", "e", "r", "t", ".", "w", "e", "b">>

sensor1 == <<"s", "e", "n", "s", "o", "r", "1">>

sensor2 == <<"s", "e", "n", "s", "o", "r", "2">>

sensor3 == <<"s", "e", "n", "s", "o", "r", "3">>
sensor10 == <<"s", "e", "n", "s", "o", "r", "1", "0">>

\* valid_keywords of validate_keywords
valid_keywords == {kw_IF, kw_THEN, kw_ELSE, kw_ELSEIF, kw_ENDIF}

\* the actions the dispatch loop knows
known_actions == {alert_email, alert_sms, alert_mail, alert_web}

(***************************************************************************)
(* The rule lines that the model feeds to the engine.  Each is the text of *)
(* one line of a rule expression.                                          *)
(***************************************************************************)
\* 'IF (sensor1 > 3) THEN'
L_if_true == <<"I", "F", " ", "(", "s", "e", "n", "s", "o", "r", "1", " ", ">", " ", "3", ")", " ", "T", "H", "E", "N">>

\* 'IF (sensor1 > 10) THEN'
L_if_false == <<"I", "F", " ", "(", "s", "e", "n", "s", "o", "r", "1", " ", ">", " ", "1", "0", ")", " ", "T", "H", "E", "N">>

\* 'ELSEIF (sensor2 > 3) THEN'
L_elseif_true == <<"E", "L", "S", "E", "I", "F", " ", "(", "s", "e", "n", "s", "o", "r", "2", " ", ">", " ", "3", ")", " ", "T", "H", "E", "N">>

\* 'ELSEIF (sensor2 > 10) THEN'
L_elseif_false == <<"E", "L", "S", "E", "I", "F", " ", "(", "s", "e", "n", "s", "o", "r", "2", " ", ">", " ", "1", "0", ")", " ", "T", "H", "E", "N">>

\* 'ELSE'
L_else == <<"E", "L", "S", "E">>

\* 'ENDIF'
L_endif == <<"E", "N", "D", "I", "F">>

\* 'alert.email'
L_email == <<"a", "l", "e", "r", "t", ".", "e", "m", "a", "i", "l">>

\* '  alert.sms'
L_sms == <<" ", " ", "a", "l", "e", "r", "t", ".", "s", "m", "s">>

\* 'x = 1'
L_assign_1 == <<"x", " ", "=", " ", "1">>

\* 'x = sensor2'
L_assign_mid == <<"x", " ", "=", " ", "s", "e", "n", "s", "o", "r", "2">>

\* 'IF (x > 3) THEN'
L_if_var == <<"I", "F", " ", "(", "x", " ", ">", " ", "3", ")", " ", "T", "H", "E", "N">>

\* 'IF (sensor9 > 3) THEN'
L_if_absent == <<"I", "F", " ", "(", "s", "e", "n", "s", "o", "r", "9", " ", ">", " ", "3", ")", " ", "T", "H", "E", "N">>

\* 'if (sensor1 > 3) THEN'
L_lower_if == <<"i", "f", " ", "(", "s", "e", "n", "s", "o", "r", "1", " ", ">", " ", "3", ")", " ", "T", "H", "E", "N">>

\* 'IF (sensor1 > 3)'
L_no_then == <<"I", "F", " ", "(", "s", "e", "n", "s", "o", "r", "1", " ", ">", " ", "3", ")">>

\* 'IF sensor1 THEN'
L_no_parens == <<"I", "F", " ", "s", "e", "n", "s", "o", "r", "1", " ", "T", "H", "E", "N">>

\* 'WHILE x'
L_invalid == <<"W", "H", "I", "L", "E", " ", "x">>

\* '  '
L_blank == <<" ", " ">>

\* 'ELSEIF (sensor9 > 3) THEN'
L_elseif_absent == <<"E", "L", "S", "E", "I", "F", " ", "(", "s", "e", "n", "s", "o", "r", "9", " ", ">", " ", "3", ")", " ", "T", "H", "E", "N">>

\* 'alert.push'
L_push == <<"a", "l", "e", "r", "t", ".", "p", "u", "s", "h">>

\* 'sensor1 > 3'
L_stray == <<"s", "e", "n", "s", "o", "r", "1", " ", ">", " ", "3">>

\* 'IF (sensor10 > 3) THEN'
L_if_ten == <<"I", "F", " ", "(", "s", "e", "n", "s", "o", "r", "1", "0", " ", ">", " ", "3", ")", " ", "T", "H", "E", "N">>

\* 'alert.sensor1'
L_alert_mid == <<"a", "l", "e", "r", "t", ".", "s", "e", "n", "s", "o", "r", "1">>

\* 'IF (SUM(x, 2) > 3) THEN'
L_if_call == <<"I", "F", " ", "(", "S", "U", "M", "(", "x", ",", " ", "2", ")", " ", ">", " ", "3", ")", " ", "T", "H", "E", "N">>

\* 'IF ((x) > 3) THEN'
L_if_group == <<"I", "F", " ", "(", "(", "x", ")", " ", ">", " ", "3", ")", " ", "T", "H", "E", "N">>

\* 'ENDIF NOW'
L_endif_now == <<"E", "N", "D", "I", "F", " ", "N", "O", "W">>

\* 'ELSEIF (sensor2 > 3)'
L_elseif_no_then == <<"E", "L", "S", "E", "I", "F", " ", "(", "s", "e", "n", "s", "o", "r", "2", " ", ">", " ", "3", ")">>

RuleLines == {L_if_true, L_if_false, L_elseif_true, L_elseif_false, L_else, L_endif, L_email, L_sms, L_assign_1, L_assign_mid, L_if_var, L_if_absent, L_lower_if, L_no_then, L_no_parens, L_invalid, L_blank, L_elseif_absent,
     L_endif_now, L_elseif_no_then}

\* the rule lines of the rules in batches of several rules: one or two of every kind
BatchLines == {L_if_var, L_elseif_true, L_else, L_endif, L_email, L_assign_1, L_assign_mid, L_invalid, L_blank, L_push, L_stray}

\* the lines handed to the substitution loop on its own
\* 'SUM=3'
L_assign_sum == <<"S", "U", "M", "=", "3">>

\* 'x = SUM(1, 2)'
L_assign_call == <<"x", " ", "=", " ", "S", "U", "M", "(", "1", ",", " ", "2", ")">>

\* 'x = abs(3)'
L_assign_builtin == <<"x", " ", "=", " ", "a", "b", "s", "(", "3", ")">>

\* 'x = foo(3)'
L_assign_unknown == <<"x", " ", "=", " ", "f", "o", "o", "(", "3", ")">>

\* 'x = SUM()'
L_assign_empty_sum == <<"x", " ", "=", " ", "S", "U", "M", "(", ")">>

\* 'y = MOD(x, 2)'
L_assign_mod == <<"y", " ", "=", " ", "M", "O", "D", "(", "x", ",", " ", "2", ")">>

\* the assignment lines that are evaluated one after the other on one engine
AssignLines == {L_assign_1, L_assign_sum, L_assign_call, L_assign_builtin, L_assign_unknown,
                L_assign_empty_sum, L_assign_mod}

SubstLines == {L_if_true, L_if_ten, L_alert_mid, L_assign_mid, L_email}

\* the lines handed to the condition regex on its own
CondLines == {L_if_true, L_if_call, L_if_group, L_no_parens, L_elseif_true}

(***************************************************************************)
(* Exceptions.  An exception is its Python type and the fixed head of its  *)
(* message.                                                                *)
(***************************************************************************)
NoError == [type |-> "none", msg |-> ""]

Raise(type, msg) == [type |-> type, msg |-> msg]

(***************************************************************************)
(* RuleAgent.context: the snapshot every rule is evaluated against.        *)
(***************************************************************************)
context ==
    << [mid |-> sensor1, data |-> <<5>>, ts |-> "1627395600"],
       [mid |-> sensor2, data |-> <<8>>, ts |-> "1627392000"],
       [mid |-> sensor3, data |-> <<10>>, ts |-> "1627392001"] >>

(***************************************************************************)
(* RuleEngine: the pure parts.                                             *)
(***************************************************************************)
\* the verdict of validate_keywords on one word
validate_word(word) ==
    IF Contains(word, <<"(">>) \/ Contains(word, <<")">>) \/ Contains(word, eq_sign)
    THEN NoError
    ELSE IF word \in valid_keywords
         THEN IF IsLower(word)
              THEN Raise("ValueError", "Incorrect capitalization for keyword")
              ELSE NoError
         ELSE IF IsUpper(word)
              THEN Raise("ValueError", "Invalid keyword")
              ELSE NoError

\* validate_keywords: the error of the first offending word of the line, NoError when there is none
validate_keywords(line) ==
    LET words == Split(line)
        bad == {i \in 1..Len(words) : validate_word(words[i]) # NoError}
    IN  IF bad = {} THEN NoError
        ELSE validate_word(words[CHOOSE i \in bad : \A j \in bad : i <= j])

\* get_data_for_mid: data[0] of the first entry with that mid, or the error
get_data_for_mid(mid, ctx) ==
    LET hits == {i \in 1..Len(ctx) : ctx[i].mid = mid}
    IN  IF hits = {}
        THEN [err |-> Raise("ValueError", "MID not found in context"), value |-> 0]
        ELSE [err |-> NoError, value |-> ctx[CHOOSE i \in hits : \A j \in hits : i <= j].data[1]]

\* preprocess_expression, applied to the text of a line
preprocess_expression(expression) ==
    Replace(Replace(expression, amp_amp, word_and), bar_bar, word_or)

\* the substitution loop of parse_and_evaluate: the entries k.. of ctx, in order
RECURSIVE substitute_from(_, _, _)
substitute_from(line, k, ctx) ==
    IF k > Len(ctx) THEN [err |-> NoError, line |-> line]
    ELSE LET d == get_data_for_mid(ctx[k].mid, ctx)
         IN  IF d.err # NoError THEN [err |-> d.err, line |-> line]
             ELSE substitute_from(Replace(line, ctx[k].mid, IntToStr(d.value)), k + 1, ctx)

\* a substitution loop that takes the entries out of the context as it reads them
substitute_draining(line, ctx) ==
    LET r == substitute_from(line, 1, ctx)
    IN  [err |-> r.err, line |-> r.line, ctx |-> <<>>]

\* the substitution loop: the exception or the line it leaves, and the context it leaves
substitute(line, ctx) ==
    LET r == substitute_from(line, 1, ctx)
    IN  [err |-> r.err, line |-> r.line, ctx |-> ctx]

\* re.search(r'\((.*?)\)', line): the text between the first "(" and the first ")" after it
search_condition(line) ==
    LET i == Find(line, <<"(">>)
        j == IF i = 0 THEN 0 ELSE Find(Tail_from(line, i + 1), <<")">>)
    IN  IF i = 0 \/ j = 0
        THEN [err |-> Raise("AttributeError", "'NoneType' object has no attribute 'group'"), group |-> <<>>]
        ELSE [err |-> NoError, group |-> SubSeq(line, i + 1, i + j - 1)]

\* sum(args)
RECURSIVE sum(_)
sum(args) == IF args = <<>> THEN 0 ELSE Head(args) + sum(Tail(args))

\* result = 1; for arg in args: result *= arg
RECURSIVE product_from(_, _)
product_from(result, args) ==
    IF args = <<>> THEN result ELSE product_from(result * Head(args), Tail(args))

\* SUB with only the second argument subtracted
subtract_second_only(args) == IF Len(args) = 1 THEN args[1] ELSE args[1] - args[2]

\* args[0] if len(args) == 1 else args[0] - sum(args[1:]), of a non-empty tuple
subtract(args) == IF Len(args) = 1 THEN args[1] ELSE args[1] - sum(Tail(args))

\* a % b of Python: the result has the sign of b
py_mod(a, b) == IF b > 0 THEN a % b ELSE -((-a) % (-b))

\* abs(x)
abs(x) == IF x < 0 THEN -x ELSE x

\* min(args) and max(args) of a non-empty tuple
min(args) == CHOOSE m \in {args[i] : i \in DOMAIN args} : \A i \in DOMAIN args : m <= args[i]
max(args) == CHOOSE m \in {args[i] : i \in DOMAIN args} : \A i \in DOMAIN args : m >= args[i]

\* the branches of math_operation whose result is an integer
operations == {"SUM", "SUB", "PROD", "MOD", "ABS", "MIN", "MAX"}

\* the float that a branch of math_operation computes from integer arguments, kept as the
\* operation and its arguments
a_float(operation, args) == [err |-> NoError, val |-> [float |-> operation, of |-> args]]

\* math_operation over integer arguments: the result, or the exception of the branch
math_operation(operation, args) ==
    LET out_of_range == [err |-> Raise("IndexError", "tuple index out of range"), val |-> 0]
        domain_error == [err |-> Raise("ValueError", "math domain error"), val |-> 0]
        value(v) == [err |-> NoError, val |-> v]
    IN  CASE operation = "SUM" -> value(sum(args))
          [] operation = "SUB" ->
                IF args = <<>> THEN out_of_range ELSE value(subtract(args))
          [] operation = "PROD" -> value(product_from(1, args))
          [] operation = "MOD" ->
                IF Len(args) < 2 THEN out_of_range
                ELSE IF args[2] = 0
                THEN [err |-> Raise("ZeroDivisionError", "integer modulo by zero"), val |-> 0]
                ELSE value(py_mod(args[1], args[2]))
          [] operation = "ABS" ->
                IF args = <<>> THEN out_of_range ELSE value(abs(args[1]))
          [] operation = "MIN" ->
                IF args = <<>>
                THEN [err |-> Raise("ValueError", "min() arg is an empty sequence"), val |-> 0]
                ELSE value(min(args))
          [] operation = "MAX" ->
                IF args = <<>>
                THEN [err |-> Raise("ValueError", "max() arg is an empty sequence"), val |-> 0]
                ELSE value(max(args))
          [] operation \in {"SIN", "COS", "TAN", "EXP", "ATAN"} ->
                IF args = <<>> THEN out_of_range ELSE a_float(operation, <<args[1]>>)
          [] operation = "SQRT" ->
                IF args = <<>> THEN out_of_range
                ELSE IF args[1] < 0 THEN domain_error
                ELSE a_float(operation, <<args[1]>>)
          [] operation \in {"LOG", "LOG10"} ->
                IF args = <<>> THEN out_of_range
                ELSE IF args[1] <= 0 THEN domain_error
                ELSE a_float(operation, <<args[1]>>)
          [] operation = "AVG" ->
                IF args = <<>>
                THEN [err |-> Raise("ZeroDivisionError", "division by zero"), val |-> 0]
                ELSE a_float(operation, args)
          [] OTHER -> [err |-> Raise("ValueError", "Unknown operation"), val |-> 0]

\* context_dict: the Function Library, one lambda per name; a lambda takes any number of
\* arguments (*args) or has a fixed number of parameters
context_dict ==
    {
      [name |-> <<"S", "U", "M">>, operation |-> "SUM", variadic |-> TRUE, parameters |-> 0],
      [name |-> <<"S", "U", "B">>, operation |-> "SUB", variadic |-> TRUE, parameters |-> 0],
      [name |-> <<"P", "R", "O", "D">>, operation |-> "PROD", variadic |-> TRUE, parameters |-> 0],
      [name |-> <<"M", "O", "D">>, operation |-> "MOD", variadic |-> FALSE, parameters |-> 2],
      [name |-> <<"A", "B", "S">>, operation |-> "ABS", variadic |-> FALSE, parameters |-> 1],
      [name |-> <<"S", "I", "N">>, operation |-> "SIN", variadic |-> FALSE, parameters |-> 1],
      [name |-> <<"C", "O", "S">>, operation |-> "COS", variadic |-> FALSE, parameters |-> 1],
      [name |-> <<"T", "A", "N">>, operation |-> "TAN", variadic |-> FALSE, parameters |-> 1],
      [name |-> <<"S", "Q", "R", "T">>, operation |-> "SQRT", variadic |-> FALSE, parameters |-> 1],
      [name |-> <<"M", "I", "N">>, operation |-> "MIN", variadic |-> TRUE, parameters |-> 0],
      [name |-> <<"M", "A", "X">>, operation |-> "MAX", variadic |-> TRUE, parameters |-> 0],
      [name |-> <<"A", "V", "G">>, operation |-> "AVG", variadic |-> TRUE, parameters |-> 0],
      [name |-> <<"L", "O", "G">>, operation |-> "LOG", variadic |-> FALSE, parameters |-> 1],
      [name |-> <<"L", "O", "G", "1", "0">>, operation |-> "LOG10", variadic |-> FALSE, parameters |-> 1],
      [name |-> <<"E", "X", "P">>, operation |-> "EXP", variadic |-> FALSE, parameters |-> 1],
      [name |-> <<"A", "T", "A", "N">>, operation |-> "ATAN", variadic |-> FALSE, parameters |-> 1]
    }

library_names == {f.name : f \in context_dict}

library_operations == {f.operation : f \in context_dict}

\* the call of the lambda of context_dict for the operation, with the arguments args
library_call(operation, args) ==
    LET f == CHOOSE g \in context_dict : g.operation = operation
    IN  IF ~f.variadic /\ Len(args) # f.parameters
        THEN [err |-> Raise("TypeError", "<lambda>() positional arguments"), val |-> 0]
        ELSE math_operation(operation, args)

\* the builtins of Python that the model knows: eval adds __builtins__ to its empty globals
host_builtins == {<<"a", "b", "s">>, <<"m", "i", "n">>, <<"m", "a", "x">>}

\* the call of a builtin on integer arguments
builtin_call(name, args) ==
    IF name = <<"a", "b", "s">>
    THEN IF Len(args) # 1
         THEN [err |-> Raise("TypeError", "abs() takes exactly one argument"), val |-> 0]
         ELSE [err |-> NoError, val |-> abs(args[1])]
    ELSE IF args = <<>>
    THEN [err |-> Raise("TypeError", "expected at least 1 argument, got 0"), val |-> 0]
    ELSE IF Len(args) = 1
    THEN [err |-> Raise("TypeError", "'int' object is not iterable"), val |-> 0]
    ELSE [err |-> NoError, val |-> IF name = <<"m", "i", "n">> THEN min(args) ELSE max(args)]

(***************************************************************************)
(* eval(text, {}, {**context_dict, **variables}) on the expressions the    *)
(* rule lines above contain: a term, or two terms around one comparison    *)
(* operator.  A term is an operand or a call name(operand, ..., operand);  *)
(* an operand is an integer literal or a name, and a name is looked up in  *)
(* the Variable Environment.  The name of a call is looked up in the       *)
(* Variable Environment, then in context_dict, then in the builtins.       *)
(***************************************************************************)
compare_ops == {<<">">>, <<"<">>, <<">", "=">>, <<"<", "=">>, <<"=", "=">>, <<"!", "=">>}

compare(op, a, b) ==
    CASE op = <<">">> -> a > b
      [] op = <<"<">> -> a < b
      [] op = <<">", "=">> -> a >= b
      [] op = <<"<", "=">> -> a <= b
      [] op = <<"=", "=">> -> a = b
      [] op = <<"!", "=">> -> a # b

eval_operand(tok, env) ==
    IF IsDigits(tok) THEN [err |-> NoError, val |-> StrToInt(tok)]
    ELSE IF tok \in DOMAIN env THEN [err |-> NoError, val |-> env[tok]]
    ELSE [err |-> Raise("NameError", "name is not defined"), val |-> 0]

invalid_syntax == [err |-> Raise("SyntaxError", "invalid syntax"), val |-> 0]

\* the texts between the commas of s
RECURSIVE split_commas(_)
split_commas(s) ==
    LET i == Find(s, <<",">>)
    IN  IF i = 0 THEN <<s>>
        ELSE <<SubSeq(s, 1, i - 1)>> \o split_commas(Tail_from(s, i + 1))

\* the values of the operands, or the first exception that one of them raises
RECURSIVE eval_operands(_, _)
eval_operands(toks, env) ==
    IF toks = <<>> THEN [err |-> NoError, val |-> <<>>]
    ELSE LET first == eval_operand(Head(toks), env)
             rest == eval_operands(Tail(toks), env)
         IN  IF Head(toks) = <<>> THEN invalid_syntax
             ELSE IF first.err # NoError THEN first
             ELSE IF rest.err # NoError THEN rest
             ELSE [err |-> NoError, val |-> <<first.val>> \o rest.val]

\* a call name(operand, ..., operand), written without blanks
eval_call(text, env) ==
    LET open == Find(text, <<"(">>)
        name == SubSeq(text, 1, open - 1)
        inside == SubSeq(text, open + 1, Len(text) - 1)
        args == eval_operands(IF inside = <<>> THEN <<>> ELSE split_commas(inside), env)
        lambdas == {f \in context_dict : f.name = name}
    IN  IF \/ open < 2
           \/ text[Len(text)] # ")"
           \/ Contains(inside, <<"(">>)
           \/ Contains(inside, <<")">>)
           \/ \E i \in 1..(open - 1) : text[i] \notin UpperChars \cup LowerChars \cup {"_"}
        THEN invalid_syntax
        ELSE IF name \notin DOMAIN env /\ lambdas = {} /\ name \notin host_builtins
        THEN [err |-> Raise("NameError", "name is not defined"), val |-> 0]
        ELSE IF args.err # NoError THEN args
        ELSE IF name \in DOMAIN env
        THEN [err |-> Raise("TypeError", "'int' object is not callable"), val |-> 0]
        ELSE IF lambdas # {}
        THEN library_call((CHOOSE f \in lambdas : TRUE).operation, args.val)
        ELSE builtin_call(name, args.val)

\* the pieces put together without the blanks between them
RECURSIVE concat(_)
concat(toks) == IF toks = <<>> THEN <<>> ELSE Head(toks) \o concat(Tail(toks))

\* a term given as its blank-separated pieces
eval_term(toks, env) ==
    IF toks = <<>> THEN invalid_syntax
    ELSE IF Len(toks) = 1 /\ ~Contains(toks[1], <<"(">>) /\ ~Contains(toks[1], <<")">>)
    THEN eval_operand(toks[1], env)
    ELSE eval_call(concat(toks), env)

eval(text, env) ==
    LET toks == Split(text)
        ops == {k \in 1..Len(toks) : toks[k] \in compare_ops}
        k == CHOOSE i \in ops : \A j \in ops : i <= j
    IN  IF ops = {} THEN eval_term(toks, env)
        ELSE LET a == eval_term(SubSeq(toks, 1, k - 1), env)
                 b == eval_term(SubSeq(toks, k + 1, Len(toks)), env)
             IN  IF a.err # NoError THEN a
                 ELSE IF b.err # NoError THEN b
                 ELSE [err |-> NoError, val |-> compare(toks[k], a.val, b.val)]

\* the message the dispatch loop prints for one recorded action
dispatch_message(action) ==
    CASE action = alert_email -> "Email sent"
      [] action = alert_sms -> "SMS sent"
      [] action = alert_mail -> "Mail sent"
      [] action = alert_web -> "WEB ALERT sent"
      [] OTHER -> "Unidentified action"

(***************************************************************************)
(* State.                                                                  *)
(***************************************************************************)
VARIABLES
    rules,            \* RuleAgent.rules: the batch, one entry per rule
    idx,              \* evaluate_rules: the number of the rule the loop is at
    pc,               \* "idle": outside evaluate_rules, "loop": between two rules, "lines": inside parse_and_evaluate
    log,              \* what evaluate_rules has printed for the current batch
    last_outcome,     \* how the latest call of parse_and_evaluate ended
    variables,        \* RuleEngine.variables: the Variable Environment
    block_stack,      \* parse_and_evaluate: the stack of saved (should_evaluate, block_executed)
    should_evaluate,  \* parse_and_evaluate
    block_executed,   \* parse_and_evaluate
    execute_actions,  \* parse_and_evaluate: the recorded actions
    dispatched,       \* what the dispatch loop of the latest call has printed
    last_line,        \* history: the latest non-blank line the line loop of the current call has read
    chains,           \* history: for every open IF chain, whether its current or an earlier branch has recorded an action, and the pair (should_evaluate, block_executed) before its IF line
    two_branches,     \* history: some IF chain of the expression has recorded actions in two branches
    ill_formed,       \* history: some chain of the expression has an ELSEIF or ELSE after its ELSE
    balance,          \* history: IF lines processed minus ENDIF lines processed
    call,             \* a part of the engine called on its own: the function, its arguments, its result
    agent_context,    \* RuleAgent.context: the list that every call of parse_and_evaluate is given
    rules_file,       \* rules.json on disk: whether it exists, how much of its text is written, the list the text stands for
    mqtt_thread,      \* the MQTT callback thread inside FileManager.append_rule: its position, its argument, its locals, its latest return value
    main_thread       \* the main thread: what its latest RuleAgent.load_rules returned; history: the append it overlapped with

vars == <<rules, idx, pc, log, last_outcome, variables, block_stack, should_evaluate,
          block_executed, execute_actions, dispatched, last_line, chains, two_branches,
          ill_formed, balance, call, agent_context, rules_file, mqtt_thread, main_thread>>

locals == <<block_stack, should_evaluate, block_executed, execute_actions>>

history == <<chains, two_branches, ill_formed, balance>>

file_side == <<rules_file, mqtt_thread, main_thread>>

agent_side == <<rules, idx, pc, log, last_outcome, variables, locals, dispatched, last_line,
                history, call, agent_context>>

\* None of Python, and a str
None == [json |-> "null"]
Str(text) == [json |-> "string", text |-> text]

\* rules.json does not exist yet
NoFile == [state |-> "absent", rules |-> <<>>]

\* the MQTT thread outside append_rule, before its first call
NoAppend == [pc |-> "idle", obj |-> None, before |-> <<>>, pending |-> <<>>, result |-> "none"]

\* the main thread before its first load_rules
NoLoad == [done |-> FALSE, loaded |-> <<>>, overlapped |-> FALSE, before |-> <<>>, after |-> <<>>]

\* rule.get("rule_id") of a rule object that has no rule_id
NoRuleId == <<>>

\* a rule object without a rule_id, and one with the rule_id 'r7'
rule_plain == [json |-> "object", rule_id |-> NoRuleId, has_expression |-> TRUE]
rule_r7 == [json |-> "object", rule_id |-> <<"r", "7">>, has_expression |-> TRUE]

\* an object without "expression": rule.get("expression", "") gives the empty expression
rule_no_expression == [json |-> "object", rule_id |-> NoRuleId, has_expression |-> FALSE]

\* an entry of the list that is not an object, such as 5
entry_number == [json |-> "number", rule_id |-> NoRuleId, has_expression |-> FALSE]

\* the lists load_rules can return, up to n rules: each entry is one of the given rule objects
BatchesUpTo(n, objects) == UNION {[1..k -> objects] : k \in 0..n}

\* kind: "return" or "raise"; site: "line" when the call ended inside the line loop, "end" when after it
NoOutcome == [kind |-> "none", site |-> "none", error |-> NoError, actions |-> <<>>]

\* no part of the engine is called on its own
NoCall == [fn |-> "none", arg |-> <<>>, done |-> FALSE, result |-> <<>>]

\* RuleAgent.__init__: a new agent with a new engine
InitAgent ==
    /\ rules = <<>>
    /\ rules_file = NoFile
    /\ mqtt_thread = NoAppend
    /\ main_thread = NoLoad
    /\ agent_context = context
    /\ idx = 1
    /\ pc = "idle"
    /\ log = <<>>
    /\ last_outcome = NoOutcome
    /\ variables = [n \in {} |-> 0]
    /\ block_stack = <<>>
    /\ should_evaluate = TRUE
    /\ block_executed = FALSE
    /\ execute_actions = <<>>
    /\ dispatched = <<>>
    /\ last_line = <<>>
    /\ chains = <<>>
    /\ two_branches = FALSE
    /\ ill_formed = FALSE
    /\ balance = 0

Init ==
    /\ InitAgent
    /\ call = NoCall

(***************************************************************************)
(* RuleAgent.                                                              *)
(***************************************************************************)
\* start: load_rules returns a batch, evaluate_rules begins (and ends at once on an empty batch)
Start(batch) ==
    /\ pc = "idle"
    /\ rules' = batch
    /\ idx' = 1
    /\ IF batch = <<>>
       THEN /\ pc' = "idle"
            /\ log' = << <<"No rules to evaluate", 0>> >>
       ELSE /\ pc' = "loop"
            /\ log' = <<>>
    /\ UNCHANGED <<call, file_side, agent_context, last_outcome, variables, locals, dispatched, last_line, history>>

\* BeginRule with an engine that starts every call on an empty Variable Environment
BeginRule_fresh_variables ==
    /\ pc = "loop"
    /\ idx <= Len(rules)
    /\ rules[idx].json = "object"
    /\ log' = Append(log, <<"Evaluating Rule", idx>>)
    /\ last_outcome' = NoOutcome
    /\ variables' = [n \in {} |-> 0]
    /\ block_stack' = <<>>
    /\ should_evaluate' = TRUE
    /\ block_executed' = FALSE
    /\ execute_actions' = <<>>
    /\ dispatched' = <<>>
    /\ chains' = <<>>
    /\ two_branches' = FALSE
    /\ ill_formed' = FALSE
    /\ balance' = 0
    /\ last_line' = <<>>
    /\ pc' = "lines"
    /\ UNCHANGED <<call, file_side, agent_context, rules, idx>>

\* BeginRule with a block tracker and an action list that live as long as the engine
BeginRule_keeps_locals ==
    /\ pc = "loop"
    /\ idx <= Len(rules)
    /\ rules[idx].json = "object"
    /\ log' = Append(log, <<"Evaluating Rule", idx>>)
    /\ last_outcome' = NoOutcome
    /\ dispatched' = <<>>
    /\ two_branches' = FALSE
    /\ ill_formed' = FALSE
    /\ last_line' = <<>>
    /\ pc' = "lines"
    /\ UNCHANGED <<call, file_side, agent_context, rules, idx, variables, locals, chains, balance>>

\* evaluate_rules, loop body up to the call: parse_and_evaluate starts on rule idx
BeginRule ==
    /\ pc = "loop"
    /\ idx <= Len(rules)
    /\ rules[idx].json = "object"
    /\ log' = Append(log, <<"Evaluating Rule", idx>>)
    /\ last_outcome' = NoOutcome
    /\ block_stack' = <<>>
    /\ should_evaluate' = TRUE
    /\ block_executed' = FALSE
    /\ execute_actions' = <<>>
    /\ dispatched' = <<>>
    /\ chains' = <<>>
    /\ two_branches' = FALSE
    /\ ill_formed' = FALSE
    /\ balance' = 0
    /\ last_line' = <<>>
    /\ pc' = "lines"
    /\ UNCHANGED <<call, file_side, agent_context, rules, idx, variables>>

\* evaluate_rules, rule.get of the loop body on an entry that is not an object:
\* the AttributeError is raised outside the try and leaves evaluate_rules,
\* start and the loop of main, which does not catch it
GetExpressionRaises ==
    /\ pc = "loop"
    /\ idx <= Len(rules)
    /\ rules[idx].json # "object"
    /\ pc' = "aborted"
    /\ last_outcome' = [kind |-> "raise", site |-> "entry",
                        error |-> Raise("AttributeError", "object has no attribute 'get'"),
                        actions |-> <<>>]
    /\ UNCHANGED <<call, file_side, agent_context, rules, idx, log, variables, locals, dispatched,
                   last_line, history>>

\* evaluate_rules: the loop has passed the last rule
FinishBatch ==
    /\ pc = "loop"
    /\ idx > Len(rules)
    /\ pc' = "idle"
    /\ UNCHANGED <<call, file_side, agent_context, rules, idx, log, last_outcome, variables, locals, dispatched, last_line, history>>

\* Fail with the exception leaving evaluate_rules as well: the batch is abandoned
Fail_aborts_batch(raw, err, site) ==
    /\ last_outcome' = [kind |-> "raise", site |-> site, error |-> err, actions |-> <<>>]
    /\ log' = Append(log, <<"Error evaluating Rule", idx>>)
    /\ pc' = "idle"
    /\ last_line' = raw
    /\ UNCHANGED <<call, file_side, rules, idx, variables, locals, dispatched, history>>

\* Fail with an engine that gives up the Variable Environment when a call fails
Fail_clears_variables(raw, err, site) ==
    /\ last_outcome' = [kind |-> "raise", site |-> site, error |-> err, actions |-> <<>>]
    /\ log' = Append(log, <<"Error evaluating Rule", idx>>)
    /\ idx' = idx + 1
    /\ pc' = "loop"
    /\ last_line' = raw
    /\ variables' = [n \in {} |-> 0]
    /\ UNCHANGED <<call, file_side, rules, locals, dispatched, history>>

\* an exception leaves parse_and_evaluate and is caught by evaluate_rules, which goes on to the next rule
Fail(raw, err, site) ==
    /\ last_outcome' = [kind |-> "raise", site |-> site, error |-> err, actions |-> <<>>]
    /\ log' = Append(log, <<"Error evaluating Rule", idx>>)
    /\ idx' = idx + 1
    /\ pc' = "loop"
    /\ last_line' = raw
    /\ UNCHANGED <<call, file_side, rules, variables, locals, dispatched, history>>

(***************************************************************************)
(* RuleEngine.parse_and_evaluate: one step per line of the expression.     *)
(***************************************************************************)
\* the head of the loop body: strip, the blank test, validate_keywords, the substitution loop
prepare(raw) ==
    LET line == Strip(preprocess_expression(raw))
        verr == validate_keywords(line)
        sub == substitute(line, context)
    IN  IF line = <<>> THEN [blank |-> TRUE, err |-> NoError, line |-> line, ctx |-> context]
        ELSE IF verr # NoError THEN [blank |-> FALSE, err |-> verr, line |-> line, ctx |-> context]
        ELSE [blank |-> FALSE, err |-> sub.err, line |-> sub.line, ctx |-> sub.ctx]

\* the branch of the if/elif chain that takes the line
branch_of(line) ==
    IF StartsWith(line, kw_IF) THEN "IF"
    ELSE IF StartsWith(line, kw_ELSEIF) THEN "ELSEIF"
    ELSE IF StartsWith(line, kw_ELSE) THEN "ELSE"
    ELSE IF StartsWith(line, kw_ENDIF) THEN "ENDIF"
    ELSE IF Contains(line, alert_prefix) THEN "action"
    ELSE IF Contains(line, eq_sign) THEN "assignment"
    ELSE "none"

\* var_name and expr of an assignment line
assignment_parts(line) ==
    LET parts == SplitOnce(line, eq_sign)
    IN  [var_name |-> Strip(parts[1]), expr |-> Strip(parts[2])]

\* what the loop body computes from the text of a line alone: its head, the
\* branch that takes it, and what that branch reads from the text
read_line(raw) ==
    LET head == prepare(raw)
        branch == branch_of(head.line)
    IN  [raw |-> raw,
         blank |-> head.blank,
         err |-> head.err,
         line |-> head.line,
         ctx |-> head.ctx,
         branch |-> branch,
         has_then |-> Contains(head.line, kw_THEN),
         condition |-> search_condition(head.line),
         assignment |-> IF branch = "assignment" THEN assignment_parts(head.line)
                        ELSE [var_name |-> <<>>, expr |-> <<>>]]

\* the rule lines as the loop body reads them
line_table == {read_line(raw) : raw \in RuleLines \cup BatchLines}

\* the lines of line_table whose text is in lines
ReadFrom(lines) == {ln \in line_table : ln.raw \in lines}

\* the line passes the head of the loop body into the given branch
Reads(ln, branch) ==
    /\ pc = "lines"
    /\ ~ln.blank
    /\ ln.err = NoError
    /\ ln.branch = branch
    /\ agent_context' = ln.ctx

\* the step stays inside parse_and_evaluate
Continue(ln) ==
    /\ pc' = "lines"
    /\ last_line' = ln.raw
    /\ UNCHANGED <<call, file_side, rules, idx, log, last_outcome, dispatched>>

\* the condition of an IF or ELSEIF line, evaluated
condition_of(ln, env) ==
    IF ln.condition.err # NoError THEN [err |-> ln.condition.err, val |-> FALSE]
    ELSE eval(ln.condition.group, env)

\* a blank line: continue
SkipBlankLine(ln) ==
    /\ pc = "lines"
    /\ ln.blank
    /\ UNCHANGED vars

\* RejectLine that lets an offending line pass in a branch that is not executing
RejectLine_only_when_executing(ln) ==
    /\ pc = "lines"
    /\ ~ln.blank
    /\ ln.err # NoError
    /\ agent_context' = ln.ctx
    /\ IF should_evaluate
       THEN Fail(ln.raw, ln.err, "line")
       ELSE /\ Continue(ln)
            /\ UNCHANGED <<variables, locals, history>>

\* validate_keywords or the substitution loop raises
RejectLine(ln) ==
    /\ pc = "lines"
    /\ ~ln.blank
    /\ ln.err # NoError
    /\ agent_context' = ln.ctx
    /\ Fail(ln.raw, ln.err, "line")

\* LineIF that evaluates its condition only in a branch that is executing
LineIF_evaluates_when_executing(ln, depth) ==
    /\ Reads(ln, "IF")
    /\ Len(block_stack) < depth
    /\ LET c == IF should_evaluate THEN condition_of(ln, variables)
                ELSE [err |-> NoError, val |-> FALSE]
       IN  IF ~ln.has_then
           THEN Fail(ln.raw, Raise("ValueError", "Missing 'THEN' keyword"), "line")
           ELSE IF c.err # NoError
           THEN Fail(ln.raw, c.err, "line")
           ELSE /\ block_stack' = Append(block_stack, <<should_evaluate, block_executed>>)
                /\ should_evaluate' = (should_evaluate /\ c.val)
                /\ block_executed' = (should_evaluate /\ c.val)
                /\ chains' = Append(chains, [fired |-> "none", else_seen |-> FALSE,
                                             before |-> <<should_evaluate, block_executed>>])
                /\ balance' = balance + 1
                /\ Continue(ln)
                /\ UNCHANGED <<variables, execute_actions, two_branches, ill_formed>>

LineIF(ln, depth) ==
    /\ Reads(ln, "IF")
    /\ Len(block_stack) < depth
    /\ LET c == condition_of(ln, variables)
       IN  IF ~ln.has_then
           THEN Fail(ln.raw, Raise("ValueError", "Missing 'THEN' keyword"), "line")
           ELSE IF c.err # NoError
           THEN Fail(ln.raw, c.err, "line")
           ELSE /\ block_stack' = Append(block_stack, <<should_evaluate, block_executed>>)
                /\ should_evaluate' = (should_evaluate /\ c.val)
                /\ block_executed' = (should_evaluate /\ c.val)
                /\ chains' = Append(chains, [fired |-> "none", else_seen |-> FALSE,
                                             before |-> <<should_evaluate, block_executed>>])
                /\ balance' = balance + 1
                /\ Continue(ln)
                /\ UNCHANGED <<variables, execute_actions, two_branches, ill_formed>>

\* history: the open chain moves on to its next branch
next_branch(is_else) ==
    /\ chains' = [chains EXCEPT ![Len(chains)] =
                    [fired |-> IF @.fired = "none" THEN "none" ELSE "earlier",
                     else_seen |-> @.else_seen \/ is_else,
                     before |-> @.before]]
    /\ ill_formed' = (ill_formed \/ chains[Len(chains)].else_seen)
    /\ UNCHANGED <<two_branches, balance>>

\* LineELSEIF that evaluates its condition whether or not a branch has executed
LineELSEIF_always_evaluates(ln) ==
    /\ Reads(ln, "ELSEIF")
    /\ LET prev_block_executed == block_stack[Len(block_stack)][2]
           c == condition_of(ln, variables)
       IN  IF block_stack = <<>>
           THEN Fail(ln.raw, Raise("ValueError", "ELSEIF without matching IF"), "line")
           ELSE IF ~ln.has_then
           THEN Fail(ln.raw, Raise("ValueError", "Missing 'THEN' keyword"), "line")
           ELSE IF c.err # NoError
           THEN Fail(ln.raw, c.err, "line")
           ELSE /\ should_evaluate' = (c.val /\ ~prev_block_executed /\ ~block_executed)
                /\ block_executed' = (block_executed \/ should_evaluate')
                /\ next_branch(FALSE)
                /\ Continue(ln)
                /\ UNCHANGED <<variables, block_stack, execute_actions>>

\* LineELSEIF that looks for THEN only when it evaluates its condition
LineELSEIF_then_checked_late(ln) ==
    /\ Reads(ln, "ELSEIF")
    /\ LET prev_block_executed == block_stack[Len(block_stack)][2]
           c == condition_of(ln, variables)
       IN  IF block_stack = <<>>
           THEN Fail(ln.raw, Raise("ValueError", "ELSEIF without matching IF"), "line")
           ELSE IF ~prev_block_executed /\ ~block_executed
           THEN IF ~ln.has_then
                THEN Fail(ln.raw, Raise("ValueError", "Missing 'THEN' keyword"), "line")
                ELSE IF c.err # NoError
                THEN Fail(ln.raw, c.err, "line")
                ELSE /\ should_evaluate' = c.val
                     /\ block_executed' = c.val
                     /\ next_branch(FALSE)
                     /\ Continue(ln)
                     /\ UNCHANGED <<variables, block_stack, execute_actions>>
           ELSE /\ should_evaluate' = FALSE
                /\ next_branch(FALSE)
                /\ Continue(ln)
                /\ UNCHANGED <<variables, block_stack, block_executed, execute_actions>>

LineELSEIF(ln) ==
    /\ Reads(ln, "ELSEIF")
    /\ LET prev_block_executed == block_stack[Len(block_stack)][2]
           c == condition_of(ln, variables)
       IN  IF block_stack = <<>>
           THEN Fail(ln.raw, Raise("ValueError", "ELSEIF without matching IF"), "line")
           ELSE IF ~ln.has_then
           THEN Fail(ln.raw, Raise("ValueError", "Missing 'THEN' keyword"), "line")
           ELSE IF ~prev_block_executed /\ ~block_executed
           THEN IF c.err # NoError
                THEN Fail(ln.raw, c.err, "line")
                ELSE /\ should_evaluate' = c.val
                     /\ block_executed' = c.val
                     /\ next_branch(FALSE)
                     /\ Continue(ln)
                     /\ UNCHANGED <<variables, block_stack, execute_actions>>
           ELSE /\ should_evaluate' = FALSE
                /\ next_branch(FALSE)
                /\ Continue(ln)
                /\ UNCHANGED <<variables, block_stack, block_executed, execute_actions>>

LineELSE(ln) ==
    /\ Reads(ln, "ELSE")
    /\ LET prev_block_executed == block_stack[Len(block_stack)][2]
       IN  IF block_stack = <<>>
           THEN Fail(ln.raw, Raise("ValueError", "ELSE without matching IF"), "line")
           ELSE /\ should_evaluate' = (~block_executed /\ ~prev_block_executed)
                /\ block_executed' = (~block_executed /\ ~prev_block_executed)
                /\ next_branch(TRUE)
                /\ Continue(ln)
                /\ UNCHANGED <<variables, block_stack, execute_actions>>

\* LineENDIF that skips the pop on an empty stack instead of failing
LineENDIF_unchecked(ln) ==
    /\ Reads(ln, "ENDIF")
    /\ IF block_stack = <<>>
       THEN /\ balance' = balance - 1
            /\ Continue(ln)
            /\ UNCHANGED <<variables, locals, chains, two_branches, ill_formed>>
       ELSE /\ should_evaluate' = block_stack[Len(block_stack)][1]
            /\ block_executed' = block_stack[Len(block_stack)][2]
            /\ block_stack' = SubSeq(block_stack, 1, Len(block_stack) - 1)
            /\ chains' = SubSeq(chains, 1, Len(chains) - 1)
            /\ balance' = balance - 1
            /\ Continue(ln)
            /\ UNCHANGED <<variables, execute_actions, two_branches, ill_formed>>

\* LineENDIF that restores should_evaluate and leaves block_executed as the chain set it
LineENDIF_keeps_block_executed(ln) ==
    /\ Reads(ln, "ENDIF")
    /\ IF block_stack = <<>>
       THEN Fail(ln.raw, Raise("ValueError", "ENDIF without matching IF"), "line")
       ELSE /\ should_evaluate' = block_stack[Len(block_stack)][1]
            /\ block_stack' = SubSeq(block_stack, 1, Len(block_stack) - 1)
            /\ chains' = SubSeq(chains, 1, Len(chains) - 1)
            /\ balance' = balance - 1
            /\ Continue(ln)
            /\ UNCHANGED <<variables, block_executed, execute_actions, two_branches, ill_formed>>

LineENDIF(ln) ==
    /\ Reads(ln, "ENDIF")
    /\ IF block_stack = <<>>
       THEN Fail(ln.raw, Raise("ValueError", "ENDIF without matching IF"), "line")
       ELSE /\ should_evaluate' = block_stack[Len(block_stack)][1]
            /\ block_executed' = block_stack[Len(block_stack)][2]
            /\ block_stack' = SubSeq(block_stack, 1, Len(block_stack) - 1)
            /\ chains' = SubSeq(chains, 1, Len(chains) - 1)
            /\ balance' = balance - 1
            /\ Continue(ln)
            /\ UNCHANGED <<variables, execute_actions, two_branches, ill_formed>>

\* LineAction that records an action only when the list does not hold it yet
LineAction_deduplicated(ln) ==
    /\ Reads(ln, "action")
    /\ should_evaluate => Len(execute_actions) < MaxActions
    /\ IF should_evaluate /\ \A i \in DOMAIN execute_actions : execute_actions[i] # ln.line
       THEN /\ execute_actions' = Append(execute_actions, ln.line)
            /\ chains' = [i \in DOMAIN chains |->
                            [chains[i] EXCEPT !.fired = IF @ = "none" THEN "current" ELSE @]]
            /\ two_branches' = (two_branches \/ \E i \in DOMAIN chains : chains[i].fired = "earlier")
            /\ UNCHANGED <<ill_formed, balance>>
       ELSE UNCHANGED <<execute_actions, history>>
    /\ Continue(ln)
    /\ UNCHANGED <<variables, block_stack, should_evaluate, block_executed>>

\* LineAction that dispatches an action as soon as it records it
LineAction_dispatches_at_once(ln) ==
    /\ Reads(ln, "action")
    /\ should_evaluate => Len(execute_actions) < MaxActions
    /\ IF should_evaluate
       THEN /\ execute_actions' = Append(execute_actions, ln.line)
            /\ dispatched' = Append(dispatched, dispatch_message(ln.line))
            /\ chains' = [i \in DOMAIN chains |->
                            [chains[i] EXCEPT !.fired = IF @ = "none" THEN "current" ELSE @]]
            /\ two_branches' = (two_branches \/ \E i \in DOMAIN chains : chains[i].fired = "earlier")
            /\ UNCHANGED <<ill_formed, balance>>
       ELSE UNCHANGED <<execute_actions, dispatched, history>>
    /\ pc' = "lines"
    /\ last_line' = ln.raw
    /\ UNCHANGED <<call, file_side, rules, idx, log, last_outcome>>
    /\ UNCHANGED <<variables, block_stack, should_evaluate, block_executed>>

LineAction(ln) ==
    /\ Reads(ln, "action")
    /\ should_evaluate => Len(execute_actions) < MaxActions
    /\ IF should_evaluate
       THEN /\ execute_actions' = Append(execute_actions, ln.line)
            /\ chains' = [i \in DOMAIN chains |->
                            [chains[i] EXCEPT !.fired = IF @ = "none" THEN "current" ELSE @]]
            /\ two_branches' = (two_branches \/ \E i \in DOMAIN chains : chains[i].fired = "earlier")
            /\ UNCHANGED <<ill_formed, balance>>
       ELSE UNCHANGED <<execute_actions, history>>
    /\ Continue(ln)
    /\ UNCHANGED <<variables, block_stack, should_evaluate, block_executed>>

\* self.variables[var_name] = value
assign(env, var_name, value) ==
    [n \in DOMAIN env \cup {var_name} |-> IF n = var_name THEN value ELSE env[n]]

\* LineAssignment gated by should_evaluate, as the action lines are
LineAssignment_gated(ln) ==
    /\ Reads(ln, "assignment")
    /\ LET v == eval(ln.assignment.expr, variables)
       IN  IF ~should_evaluate
           THEN /\ Continue(ln)
                /\ UNCHANGED <<variables, locals, history>>
           ELSE IF v.err # NoError
           THEN Fail(ln.raw, v.err, "line")
           ELSE /\ variables' = assign(variables, ln.assignment.var_name, v.val)
                /\ Continue(ln)
                /\ UNCHANGED <<locals, history>>

LineAssignment(ln) ==
    /\ Reads(ln, "assignment")
    /\ LET v == eval(ln.assignment.expr, variables)
       IN  IF v.err # NoError
           THEN Fail(ln.raw, v.err, "line")
           ELSE /\ variables' = assign(variables, ln.assignment.var_name, v.val)
                /\ Continue(ln)
                /\ UNCHANGED <<locals, history>>

\* no branch of the if/elif chain takes the line
LineIgnored(ln) ==
    /\ Reads(ln, "none")
    /\ Continue(ln)
    /\ UNCHANGED <<variables, locals, history>>

\* EndOfLines without the unmatched-block test
EndOfLines_no_unmatched_test ==
    /\ pc = "lines"
    /\ UNCHANGED agent_context
    /\ dispatched' = [i \in 1..Len(execute_actions) |-> dispatch_message(execute_actions[i])]
    /\ last_outcome' = [kind |-> "return", site |-> "end", error |-> NoError, actions |-> execute_actions]
    /\ log' = Append(log, <<"Result of Rule", idx>>)
    /\ idx' = idx + 1
    /\ pc' = "loop"
    /\ UNCHANGED <<call, file_side, rules, variables, locals, last_line, history>>

\* EndOfLines with a dispatch loop that stops at the first unidentified action
EndOfLines_stops_at_unidentified ==
    /\ pc = "lines"
    /\ UNCHANGED agent_context
    /\ IF block_stack # <<>>
       THEN Fail(last_line, Raise("ValueError", "Unmatched IF/ENDIF block"), "end")
       ELSE /\ LET unknown == {i \in DOMAIN execute_actions : execute_actions[i] \notin known_actions}
                   last == IF unknown = {} THEN Len(execute_actions)
                           ELSE CHOOSE i \in unknown : \A j \in unknown : i <= j
               IN  dispatched' = [i \in 1..last |-> dispatch_message(execute_actions[i])]
            /\ last_outcome' = [kind |-> "return", site |-> "end", error |-> NoError, actions |-> execute_actions]
            /\ log' = Append(log, <<"Result of Rule", idx>>)
            /\ idx' = idx + 1
            /\ pc' = "loop"
            /\ UNCHANGED <<call, file_side, rules, variables, locals, last_line, history>>

\* after the loop: the unmatched-block test, the dispatch loop, the return
EndOfLines ==
    /\ pc = "lines"
    /\ UNCHANGED agent_context
    /\ IF block_stack # <<>>
       THEN Fail(last_line, Raise("ValueError", "Unmatched IF/ENDIF block"), "end")
       ELSE /\ dispatched' = [i \in 1..Len(execute_actions) |-> dispatch_message(execute_actions[i])]
            /\ last_outcome' = [kind |-> "return", site |-> "end", error |-> NoError, actions |-> execute_actions]
            /\ log' = Append(log, <<"Result of Rule", idx>>)
            /\ idx' = idx + 1
            /\ pc' = "loop"
            /\ UNCHANGED <<call, file_side, rules, variables, locals, last_line, history>>

\* the steps of the agent over the given batches and rule lines, with IF blocks nested up to depth
Steps(batches, lines, depth) ==
    \/ \E batch \in batches : Start(batch)
    \/ BeginRule
    \/ \E ln \in ReadFrom(IF pc = "lines" /\ rules[idx].has_expression THEN lines ELSE {}) :
        \/ SkipBlankLine(ln)
        \/ RejectLine(ln)
        \/ LineIF(ln, depth)
        \/ LineELSEIF(ln)
        \/ LineELSE(ln)
        \/ LineENDIF(ln)
        \/ LineAction(ln)
        \/ LineAssignment(ln)
        \/ LineIgnored(ln)
    \/ EndOfLines
    \/ FinishBatch

\* one rule per batch, every rule line, batch after batch on the same agent
Next == Steps(BatchesUpTo(1, {rule_plain}), RuleLines, MaxDepth)

Spec == Init /\ [][Next]_vars

\* batches of several rules that have a rule_id, over the rule lines of BatchLines
NextBatch == Steps(BatchesUpTo(MaxRules, {rule_r7}), BatchLines, MaxBatchDepth)

SpecBatch == Init /\ [][NextBatch]_vars

\* the rule lines of the batches whose entries are of every kind
EntryLines == {L_if_var, L_elseif_true, L_else, L_endif, L_email, L_assign_1, L_invalid,
               L_blank, L_stray}

\* batches of the entries that json.load can put in the list: objects with and
\* without an expression, and entries that are not objects
NextEntries ==
    \/ Steps(BatchesUpTo(MaxRules, {rule_r7, rule_no_expression, entry_number}),
             EntryLines, MaxBatchDepth)
    \/ GetExpressionRaises

SpecEntries == Init /\ [][NextEntries]_vars

(***************************************************************************)
(* Parts of the engine called on their own: the substitution loop on one   *)
(* line and a context, the condition regex on one line, math_operation on  *)
(* an operation and its arguments.                                         *)
(***************************************************************************)
\* the context entries handed to the substitution loop on its own
context_entries ==
    { [mid |-> sensor1, data |-> <<5>>, ts |-> "1627395600"],
      [mid |-> sensor10, data |-> <<7>>, ts |-> "1627395601"],
      [mid |-> sensor2, data |-> <<8>>, ts |-> "1627392000"] }

\* the contexts of up to n different entries, in every order
ContextsUpTo(n) ==
    {ctx \in UNION {[1..k -> context_entries] : k \in 0..n} :
        \A i, j \in DOMAIN ctx : i # j => ctx[i] # ctx[j]}

\* the integers handed to math_operation
ArgValues == {-1, 0, 2, 3, 5, 10}

\* the argument tuples of up to n integers
ArgsUpTo(n) == UNION {[1..k -> ArgValues] : k \in 0..n}

\* the calls that are made
Calls ==
    {[fn |-> "substitute", arg |-> [line |-> line, ctx |-> ctx], done |-> FALSE, result |-> <<>>] :
        line \in SubstLines, ctx \in ContextsUpTo(MaxContext)}
    \cup
    {[fn |-> "search_condition", arg |-> [line |-> line], done |-> FALSE, result |-> <<>>] :
        line \in CondLines}
    \cup
    {[fn |-> "math_operation", arg |-> [operation |-> operation, args |-> args],
      done |-> FALSE, result |-> <<>>] :
        operation \in operations, args \in ArgsUpTo(MaxArgs)}

    \cup
    {[fn |-> "library_call", arg |-> [operation |-> operation, args |-> args],
      done |-> FALSE, result |-> <<>>] :
        operation \in library_operations, args \in ArgsUpTo(MaxArgs)}
    \cup
    {[fn |-> "assignments", arg |-> [lines |-> lines], done |-> FALSE, result |-> <<>>] :
        lines \in UNION {[1..k -> AssignLines] : k \in 1..MaxAssignments}}

InitCalls ==
    /\ InitAgent
    /\ call \in Calls

\* the call returns or raises
Returns(result) ==
    /\ ~call.done
    /\ call' = [call EXCEPT !.done = TRUE, !.result = result]
    /\ UNCHANGED <<file_side, agent_context, rules, idx, pc, log, last_outcome, variables, locals,
                   dispatched, last_line, history>>

\* the substitution loop of parse_and_evaluate on one line
CallSubstitute ==
    /\ call.fn = "substitute"
    /\ Returns(substitute(call.arg.line, call.arg.ctx))

\* the condition regex of the IF and ELSEIF branches on one line
CallSearchCondition ==
    /\ call.fn = "search_condition"
    /\ Returns(search_condition(call.arg.line))

CallMathOperation ==
    /\ call.fn = "math_operation"
    /\ Returns(math_operation(call.arg.operation, call.arg.args))

\* a call of a function of the Function Library, as eval makes it
CallLibrary ==
    /\ call.fn = "library_call"
    /\ Returns(library_call(call.arg.operation, call.arg.args))

\* the loop body on assignment lines outside every block, read one after the other
\* by one engine whose Variable Environment is env: the exception of the first line
\* that fails, and the Variable Environment that the lines leave
RECURSIVE assignments(_, _)
assignments(lines, env) ==
    IF lines = <<>> THEN [err |-> NoError, variables |-> env]
    ELSE LET head == prepare(Head(lines))
             parts == assignment_parts(head.line)
             v == eval(parts.expr, env)
         IN  IF head.err # NoError THEN [err |-> head.err, variables |-> env]
             ELSE IF v.err # NoError THEN [err |-> v.err, variables |-> env]
             ELSE assignments(Tail(lines), assign(env, parts.var_name, v.val))

\* assignment lines evaluated by a new engine
CallAssignments ==
    /\ call.fn = "assignments"
    /\ Returns(assignments(call.arg.lines, [n \in {} |-> 0]))

NextCalls ==
    \/ CallSubstitute
    \/ CallSearchCondition
    \/ CallMathOperation
    \/ CallLibrary
    \/ CallAssignments

SpecCalls == InitCalls /\ [][NextCalls]_vars

(***************************************************************************)
(* FileManager.append_rule on the MQTT callback thread and                 *)
(* RuleAgent.load_rules on the main thread, over the same rules.json.      *)
(* A dict is a function from its keys to its values.                       *)
(***************************************************************************)
\* dict.get(key, default)
get(obj, key, default) == IF key \in DOMAIN obj THEN obj[key] ELSE default

\* "not v" for None and for a str
falsy(v) == v = None \/ v = Str(<<>>)

\* FileManager.device_serial, as _get_device_serial writes it by default
device_serial == Str(<<"5", "8", "9", "6", "9", "6", "9", "6", "9", "6", "9">>)

\* the serial of another device
other_serial == Str(<<"5", "9">>)

\* the default of new_rule_obj.get("rule_id", "default")
default_rule_id == Str(<<"d", "e", "f", "a", "u", "l", "t">>)

\* strip_quotes that leaves the quotes
strip_quotes_never(v) == v

\* received_device_serial[1:-1] when it is a str that starts and ends with a single quote
strip_quotes(v) ==
    IF v.json = "string" /\ v.text # <<>> /\ Head(v.text) = "'" /\ v.text[Len(v.text)] = "'"
    THEN Str(SubSeq(v.text, 2, Len(v.text) - 1))
    ELSE v

\* append_rule, steps 1 and 2: the rule object passes the tests of the expression and of the serial
passes_tests(new_rule_obj) ==
    LET received_device_serial == get(new_rule_obj, "device_serial", Str(<<>>))
        expression == get(new_rule_obj, "expression", Str(<<>>))
    IN  /\ ~falsy(expression)
        /\ ~falsy(received_device_serial)
        /\ ~falsy(device_serial)
        /\ strip_quotes(received_device_serial) = device_serial

\* append_rule, step 3
rule_to_store(new_rule_obj) ==
    LET rule_id == get(new_rule_obj, "rule_id", default_rule_id)
        expression == get(new_rule_obj, "expression", Str(<<>>))
    IN  IF rule_id # default_rule_id
        THEN [expression |-> expression, rule_id |-> rule_id]
        ELSE [expression |-> expression]

\* append_rule, step 5: the first rule whose rule.get("rule_id") is the rule_id
\* is replaced, and without one the rule is appended
update_or_append(existing_rules, new_rule_obj) ==
    LET rule_id == get(new_rule_obj, "rule_id", default_rule_id)
        found == {i \in DOMAIN existing_rules : get(existing_rules[i], "rule_id", None) = rule_id}
        i == CHOOSE j \in found : \A k \in found : j <= k
    IN  IF rule_id # default_rule_id /\ found # {}
        THEN [existing_rules EXCEPT ![i] = rule_to_store(new_rule_obj)]
        ELSE Append(existing_rules, rule_to_store(new_rule_obj))

\* json.load of the file as both load functions use it: the list, or [] when
\* the file does not exist or its text is not a whole JSON document
read_rules(file) == IF file.state = "complete" THEN file.rules ELSE <<>>

\* the rule objects that arrive on the rules topic
RuleObjects ==
    LET expressions == {<<>>, <<"a">>, <<"b">>}
        serials == {device_serial, other_serial, Str(<<"'">> \o device_serial.text \o <<"'">>)}
        rule_ids == {None, Str(<<"r", "1">>)}
    IN  {[expression |-> Str(e), device_serial |-> s] : e \in expressions, s \in serials}
        \cup {[expression |-> Str(e)] : e \in expressions}
        \cup {[expression |-> Str(e), device_serial |-> s, rule_id |-> r] :
                 e \in expressions, s \in serials, r \in rule_ids}

\* append_rule returns False at one of its tests (lines 84-105)
AppendRule_returns_false(new_rule_obj) ==
    /\ mqtt_thread.pc = "idle"
    /\ ~passes_tests(new_rule_obj)
    /\ mqtt_thread' = [pc |-> "idle", obj |-> new_rule_obj, before |-> <<>>, pending |-> <<>>,
                       result |-> "False"]
    /\ UNCHANGED <<rules_file, main_thread, agent_side>>

\* append_rule up to step 5 (lines 79-131): _load_rules and the updated list
AppendRule_updates_list(new_rule_obj) ==
    /\ mqtt_thread.pc = "idle"
    /\ passes_tests(new_rule_obj)
    /\ Len(update_or_append(read_rules(rules_file), new_rule_obj)) <= MaxStored
    /\ mqtt_thread' = [pc |-> "save", obj |-> new_rule_obj, before |-> read_rules(rules_file),
                       pending |-> update_or_append(read_rules(rules_file), new_rule_obj),
                       result |-> "none"]
    /\ UNCHANGED <<rules_file, main_thread, agent_side>>

\* _save_rules, open(self.rules_file, "w"): the file exists and is empty
SaveRules_opens ==
    /\ mqtt_thread.pc = "save"
    /\ rules_file' = [state |-> "truncated", rules |-> <<>>]
    /\ mqtt_thread' = [mqtt_thread EXCEPT !.pc = "dump"]
    /\ UNCHANGED <<main_thread, agent_side>>

\* _save_rules, json.dump: the buffer of the file is written out before the text is whole
SaveRules_flushes ==
    /\ mqtt_thread.pc = "dump"
    /\ rules_file.state = "truncated"
    /\ rules_file' = [state |-> "partial", rules |-> mqtt_thread.pending]
    /\ UNCHANGED <<mqtt_thread, main_thread, agent_side>>

\* _save_rules, the end of the with block: the whole text is in the file; append_rule returns True
SaveRules_closes ==
    /\ mqtt_thread.pc = "dump"
    /\ rules_file' = [state |-> "complete", rules |-> mqtt_thread.pending]
    /\ mqtt_thread' = [mqtt_thread EXCEPT !.pc = "idle", !.result = "True"]
    /\ UNCHANGED <<main_thread, agent_side>>

\* RuleAgent.load_rules on the main thread
LoadRules ==
    /\ main_thread' =
          [done |-> TRUE,
           loaded |-> read_rules(rules_file),
           overlapped |-> mqtt_thread.pc # "idle",
           before |-> IF mqtt_thread.pc # "idle" THEN mqtt_thread.before ELSE <<>>,
           after |-> IF mqtt_thread.pc # "idle" THEN mqtt_thread.pending ELSE <<>>]
    /\ UNCHANGED <<rules_file, mqtt_thread, agent_side>>

NextFile ==
    \/ \E new_rule_obj \in RuleObjects :
          \/ AppendRule_returns_false(new_rule_obj)
          \/ AppendRule_updates_list(new_rule_obj)
    \/ SaveRules_opens
    \/ SaveRules_flushes
    \/ SaveRules_closes
    \/ LoadRules

SpecFile == Init /\ [][NextFile]_vars

(***************************************************************************)
(* Properties.                                                             *)
(***************************************************************************)
\* the latest call of parse_and_evaluate has returned its action list
Returned == pc # "lines" /\ last_outcome.kind = "return"

\* the five keywords written in lowercase
lower_keywords ==
    {<<"i", "f">>, <<"t", "h", "e", "n">>, <<"e", "l", "s", "e">>,
     <<"e", "l", "s", "e", "i", "f">>, <<"e", "n", "d", "i", "f">>}

\* the rule lines in which a keyword appears in lowercase
LowercaseKeywordLines ==
    {raw \in RuleLines : \E i \in 1..Len(Split(raw)) : Split(raw)[i] \in lower_keywords}

\* the rule lines whose condition names a mid that no context entry has
AbsentMidLines == {L_if_absent}

\* line_table's entry for a rule line
of_line(raw) == CHOOSE ln \in line_table : ln.raw = raw

\* the variable of the assignment lines
x_name == <<"x">>

\* the error the engine raises for an ELSEIF, ELSE or ENDIF line outside any IF block
no_matching_if(branch) ==
    CASE branch = "ELSEIF" -> Raise("ValueError", "ELSEIF without matching IF")
      [] branch = "ELSE" -> Raise("ValueError", "ELSE without matching IF")
      [] branch = "ENDIF" -> Raise("ValueError", "ENDIF without matching IF")

\* C1: in an expression that parse_and_evaluate accepts, no IF chain has
\* recorded action lines in two of its branches.
C1_OneBranchPerChain == Returned => ~two_branches

\* C2: evaluate_rules passes every rule of the batch to the engine once and in
\* batch order: the log holds, for rule 1, 2, ... in turn, the call and then
\* either its result or its error; a failure is reported for the rule that
\* failed, and the batch ends only after its last rule was evaluated.
C2_EveryRuleOnceInOrder ==
    rules # <<>> =>
        /\ idx \in 1..(Len(rules) + 1)
        /\ pc = "lines" => idx <= Len(rules)
        /\ pc = "idle" => idx = Len(rules) + 1
        /\ Len(log) = 2 * (idx - 1) + (IF pc = "lines" THEN 1 ELSE 0)
        /\ \A k \in 1..Len(log) :
              IF k % 2 = 1
              THEN log[k] = <<"Evaluating Rule", (k + 1) \div 2>>
              ELSE log[k] \in {<<"Result of Rule", k \div 2>>, <<"Error evaluating Rule", k \div 2>>}
        /\ (pc # "lines" /\ idx > 1) =>
              /\ last_outcome.kind \in {"return", "raise"}
              /\ last_outcome.kind = "raise" <=> log[Len(log)] = <<"Error evaluating Rule", idx - 1>>

\* C2 witness: a batch has ended in which a rule failed and the rule after it produced a result
C2_LaterRuleAfterFailure ==
    /\ pc = "idle"
    /\ \E k \in 1..Len(rules) :
          /\ Len(log) >= 2 * k + 2
          /\ log[2 * k] = <<"Error evaluating Rule", k>>
          /\ log[2 * k + 2] = <<"Result of Rule", k + 1>>

\* C3: whenever should_evaluate is true inside a block, every enclosing block
\* is executing: the should_evaluate saved at each enclosing IF is true.
C3_AncestorsExecuting ==
    (pc = "lines" /\ should_evaluate) => \A i \in 1..Len(block_stack) : block_stack[i][1]

\* C4: when all lines of an expression were processed, parse_and_evaluate
\* returns if and only if the keyword lines form well-formed chains: every IF
\* closed by an ENDIF, and no ELSEIF or ELSE after the ELSE of its chain.
C4_AcceptedIffWellFormed ==
    (pc # "lines" /\ last_outcome.site = "end") =>
        (last_outcome.kind = "return" <=> (chains = <<>> /\ ~ill_formed))

\* C5: a call that reaches the end of its lines with an IF still open fails
\* with the unmatched IF/ENDIF error and returns no action list.
C5_UnmatchedIfFails ==
    (pc # "lines" /\ last_outcome.site = "end" /\ block_stack # <<>>) =>
        /\ last_outcome.kind = "raise"
        /\ last_outcome.error = Raise("ValueError", "Unmatched IF/ENDIF block")
        /\ last_outcome.actions = <<>>

\* C5 witness: a call has ended after its last line with an IF open and actions recorded
C5_UnmatchedAfterActions ==
    /\ pc # "lines"
    /\ last_outcome.site = "end"
    /\ block_stack # <<>>
    /\ execute_actions # <<>>

\* C6: the stack depth is never negative and equals the number of IF lines
\* processed minus the number of ENDIF lines processed, and an ELSEIF, ELSE or
\* ENDIF line read while the stack is empty makes the call fail at that line.
C6_DepthIsIfMinusEndif ==
    /\ [](balance >= 0 /\ Len(block_stack) = balance)
    /\ [][\A raw \in RuleLines :
            ( /\ pc = "lines"
              /\ pc' = "lines" \/ last_outcome'.site = "line"
              /\ last_line' = raw
              /\ block_stack = <<>>
              /\ of_line(raw).err = NoError
              /\ of_line(raw).branch \in {"ELSEIF", "ELSE", "ENDIF"} )
            => ( /\ pc' = "loop"
                 /\ last_outcome'.kind = "raise"
                 /\ last_outcome'.error = no_matching_if(of_line(raw).branch)
                 /\ block_stack' = <<>> )]_vars

\* C6 witness: an ENDIF read on an empty stack, after actions were recorded, has failed the call
C6_EndifOnEmptyStackFailed ==
    /\ pc = "loop"
    /\ last_line = L_endif
    /\ block_stack = <<>>
    /\ last_outcome.error = Raise("ValueError", "ENDIF without matching IF")
    /\ execute_actions # <<>>

\* C7: a line in which a keyword appears in lowercase makes the call fail
\* with the incorrect-capitalization error as soon as it is read.
C7_LowercaseKeywordFails ==
    \A raw \in LowercaseKeywordLines :
        last_line = raw =>
            /\ pc # "lines"
            /\ last_outcome.kind = "raise"
            /\ last_outcome.error = Raise("ValueError", "Incorrect capitalization for keyword")

\* C8: a condition that names a mid absent from the context makes the call
\* fail with the "MID not found in context" error and return no actions.
C8_AbsentMidFails ==
    \A raw \in AbsentMidLines :
        last_line = raw =>
            /\ pc # "lines"
            /\ last_outcome.kind = "raise"
            /\ last_outcome.error = Raise("ValueError", "MID not found in context")
            /\ last_outcome.actions = <<>>

\* C9: no step removes a variable from the Variable Environment, and a
\* variable changes its value only in the step of an assignment line to that
\* variable: across the end of a call, a failure, the start of the next rule
\* and the start of the next batch it keeps its value.
C9_VariablesPersist ==
    [][\A n \in DOMAIN variables :
          /\ n \in DOMAIN variables'
          /\ variables'[n] # variables[n] =>
                /\ pc = "lines" /\ pc' = "lines"
                /\ last_line' \in RuleLines
                /\ of_line(last_line').branch = "assignment"
                /\ of_line(last_line').assignment.var_name = n]_vars

\* C9 witness: the second rule of a batch starts with a variable assigned before it
C9_VariableSeenByLaterRule ==
    /\ pc = "lines"
    /\ idx = 2
    /\ last_line = <<>>
    /\ x_name \in DOMAIN variables

\* C10: an assignment line that is read and evaluated sets its variable in
\* the Variable Environment and leaves the others, whatever should_evaluate
\* and the block stack are.
C10_AssignmentIgnoresGate ==
    [][(pc = "lines" /\ pc' = "lines") =>
          /\ last_line' = L_assign_1 => variables' = assign(variables, x_name, 1)
          /\ last_line' = L_assign_mid => variables' = assign(variables, x_name, 8)]_vars

\* C10 witness: an assignment read in a branch that is not executing has set the variable
C10_AssignedWhileNotExecuting ==
    /\ pc = "lines"
    /\ ~should_evaluate
    /\ block_stack # <<>>
    /\ last_line = L_assign_mid
    /\ x_name \in DOMAIN variables
    /\ variables[x_name] = 8

\* a step of the line loop, as opposed to the steps after it
LineStep == pc = "lines" /\ (pc' = "lines" \/ last_outcome'.site = "line")

\* C11: a step of the line loop appends the text of the line it reads to the
\* recorded actions when the line is an action line and should_evaluate is
\* true, and leaves the list alone otherwise; the steps that end the call
\* leave the list alone, and the call returns that list.  So the returned
\* list is the action lines read while should_evaluate was true, in the order
\* they were read, with repetitions.
C11_ReturnedListIsActionsRead ==
    [][/\ (pc = "lines" /\ pc' = "lines" /\ last_line' # <<>>) =>
            execute_actions' =
                IF of_line(last_line').branch = "action" /\ should_evaluate
                THEN Append(execute_actions, of_line(last_line').line)
                ELSE execute_actions
       /\ (pc = "lines" /\ pc' # "lines") =>
            /\ execute_actions' = execute_actions
            /\ last_outcome'.kind = "return" => last_outcome'.actions = execute_actions]_vars

\* C11 witness: a call has returned the same token twice
C11_RepeatedTokenReturned ==
    /\ Returned
    /\ last_outcome.actions = <<alert_email, alert_email>>

\* C12: in a well-formed expression, no action is recorded inside the ELSE
\* branch of a top-level IF chain once an earlier branch of that chain has
\* recorded one: of the branch bodies of the chain, one executes.
C12_OneBodyOfTopLevelChain ==
    [][(/\ pc = "lines" /\ pc' = "lines"
        /\ execute_actions' # execute_actions
        /\ chains # <<>>
        /\ ~ill_formed
        /\ chains[1].else_seen) => chains[1].fired # "earlier"]_vars

\* C13: an ELSEIF line (with THEN) that is read in a chain whose current or
\* an earlier branch has executed, before the ELSE of the chain, does not
\* fail, whatever its condition is, and leaves should_evaluate false and the
\* Variable Environment as it was.
C13_LaterElseifNotEvaluated ==
    [][(/\ LineStep
        /\ last_line' # <<>>
        /\ of_line(last_line').branch = "ELSEIF"
        /\ of_line(last_line').has_then
        /\ of_line(last_line').err = NoError
        /\ chains # <<>>
        /\ block_executed \/ should_evaluate
        /\ ~chains[Len(chains)].else_seen) =>
            /\ pc' = "lines"
            /\ ~should_evaluate'
            /\ variables' = variables]_vars

\* C13 witness: an ELSEIF whose condition names an absent mid has been read
\* after the IF branch executed, and the call goes on
C13_UnresolvedElseifSkipped ==
    /\ pc = "lines"
    /\ last_line = L_elseif_absent
    /\ block_executed
    /\ ~should_evaluate
    /\ chains # <<>>
    /\ ~chains[Len(chains)].else_seen
    /\ execute_actions # <<>>

\* what the dispatch loop is to report for a token
report_of(token) ==
    IF token = alert_email THEN "Email sent"
    ELSE IF token = alert_sms THEN "SMS sent"
    ELSE IF token = alert_mail THEN "Mail sent"
    ELSE IF token = alert_web THEN "WEB ALERT sent"
    ELSE "Unidentified action"

\* C14: when a call has returned, the dispatch loop has reported every token
\* of the returned list once, in the order of the list, an unidentified one
\* as unidentified.
C14_EveryTokenDispatchedInOrder ==
    Returned =>
        /\ Len(dispatched) = Len(last_outcome.actions)
        /\ \A i \in DOMAIN dispatched : dispatched[i] = report_of(last_outcome.actions[i])

\* C14 witness: an unidentified token was reported, the token after it was
\* dispatched, and both are in the returned list
C14_DispatchedAfterUnidentified ==
    /\ Returned
    /\ last_outcome.actions = <<L_push, alert_email>>
    /\ dispatched = <<"Unidentified action", "Email sent">>

\* a non-blank line that is no IF, ELSEIF, ELSE or ENDIF line, no action line
\* and no assignment line
malformed(raw) ==
    LET line == Strip(raw)
    IN  /\ line # <<>>
        /\ ~StartsWith(line, kw_IF)
        /\ ~StartsWith(line, kw_ELSE)
        /\ ~StartsWith(line, kw_ENDIF)
        /\ ~Contains(line, alert_prefix)
        /\ ~Contains(line, eq_sign)

MalformedLines == {raw \in RuleLines \cup BatchLines : malformed(raw)}

\* C16: once the line loop has read a malformed line, the call has failed.
C16_MalformedLineFails ==
    last_line \in MalformedLines => (pc # "lines" /\ last_outcome.kind = "raise")

\* the characters of a name: an identifier, a mid, a dotted action name
NameChars == UpperChars \cup LowerChars \cup {DigitChars[i] : i \in DOMAIN DigitChars} \cup {"_", "."}

\* the length of the name that s starts with
RECURSIVE name_length(_)
name_length(s) ==
    IF s = <<>> \/ Head(s) \notin NameChars THEN 0 ELSE 1 + name_length(Tail(s))

\* line with every name that equals a mid of ctx replaced by the text of that entry's data[0]
RECURSIVE token_substitute(_, _)
token_substitute(line, ctx) ==
    IF line = <<>> THEN <<>>
    ELSE IF Head(line) \notin NameChars THEN <<Head(line)>> \o token_substitute(Tail(line), ctx)
    ELSE LET n == name_length(line)
             name == SubSeq(line, 1, n)
             hits == {i \in DOMAIN ctx : ctx[i].mid = name}
             first == CHOOSE i \in hits : \A j \in hits : i <= j
         IN  (IF hits = {} THEN name ELSE IntToStr(ctx[first].data[1]))
             \o token_substitute(Tail_from(line, n + 1), ctx)

\* C17: the substitution loop replaces the names of the line that equal a mid
\* and nothing else, and gives the same line for every order of the context.
C17_OnlyWholeNamesReplaced ==
    (call.fn = "substitute" /\ call.done) =>
        /\ call.result.line = token_substitute(call.arg.line, call.arg.ctx)
        /\ \A ctx \in ContextsUpTo(MaxContext) :
              {ctx[i] : i \in DOMAIN ctx} = {call.arg.ctx[i] : i \in DOMAIN call.arg.ctx} =>
                  substitute(call.arg.line, ctx).line = call.result.line

\* the position of the ")" that balances an open "(", scanning line from position i at the given depth; 0 when there is none
RECURSIVE balancing_close(_, _, _)
balancing_close(line, i, depth) ==
    IF i > Len(line) THEN 0
    ELSE IF line[i] = "(" THEN balancing_close(line, i + 1, depth + 1)
    ELSE IF line[i] = ")"
    THEN IF depth = 1 THEN i ELSE balancing_close(line, i + 1, depth - 1)
    ELSE balancing_close(line, i + 1, depth)

\* C18: for a line whose first "(" has a balancing ")", the condition the
\* regex hands to the evaluation is the text between the two.
C18_ConditionIsBalancedGroup ==
    LET line == call.arg.line
        open == Find(line, <<"(">>)
        close == balancing_close(line, open + 1, 1)
    IN  (call.fn = "search_condition" /\ call.done /\ open # 0 /\ close # 0) =>
            /\ call.result.err = NoError
            /\ call.result.group = SubSeq(line, open + 1, close - 1)

\* C19: the entry that evaluate_rules prints for a rule that failed names the
\* rule by its rule_id when it has one, and by its number in the batch when
\* it has none.
C19_FailureReportNamesRuleId ==
    \A k \in DOMAIN rules :
        (2 * k \in DOMAIN log /\ log[2 * k][1] = "Error evaluating Rule") =>
            IntToStr(log[2 * k][2]) =
                IF rules[k].rule_id # NoRuleId THEN rules[k].rule_id ELSE IntToStr(k)

\* the sum and the product of a tuple, taken from its last element
RECURSIVE total(_)
total(args) ==
    IF args = <<>> THEN 0 ELSE total(SubSeq(args, 1, Len(args) - 1)) + args[Len(args)]

RECURSIVE times(_)
times(args) ==
    IF args = <<>> THEN 1 ELSE times(SubSeq(args, 1, Len(args) - 1)) * args[Len(args)]

\* C20: math_operation returns the sum of the arguments for SUM, the first
\* argument less the sum of the others for SUB of one or more arguments, and
\* the product of the arguments for PROD, which is 1 without arguments.
C20_SumSubProd ==
    LET operation == call.arg.operation
        args == call.arg.args
    IN  (call.fn = "math_operation" /\ call.done) =>
            /\ operation = "SUM" => call.result = [err |-> NoError, val |-> total(args)]
            /\ (operation = "SUB" /\ Len(args) = 1) =>
                    call.result = [err |-> NoError, val |-> args[1]]
            /\ (operation = "SUB" /\ Len(args) >= 2) =>
                    call.result = [err |-> NoError, val |-> args[1] - total(Tail(args))]
            /\ operation = "PROD" => call.result = [err |-> NoError, val |-> times(args)]
            /\ (operation = "PROD" /\ args = <<>>) => call.result.val = 1

\* C20 witness: SUB(10, 2, 3) has returned 5
C20_SubOfThree ==
    /\ call.fn = "math_operation"
    /\ call.done
    /\ call.arg.operation = "SUB"
    /\ call.arg.args = <<10, 2, 3>>
    /\ call.result = [err |-> NoError, val |-> 5]

\* the argument counts that the function table gives for the operation
documented_arity(operation, n) ==
    IF operation \in {"SUM", "SUB", "MIN", "MAX", "AVG"} THEN n >= 1
    ELSE IF operation = "MOD" THEN n = 2
    ELSE IF operation = "PROD" THEN TRUE
    ELSE n = 1

\* C21: a library call whose argument count is outside the documented arity
\* fails: no arguments for SUM, SUB, MIN, MAX or AVG, other than two for MOD,
\* other than one for the one-argument functions; MOD by zero fails too.
C21_WrongArityFails ==
    LET operation == call.arg.operation
        args == call.arg.args
    IN  (call.fn = "library_call" /\ call.done) =>
            /\ ~documented_arity(operation, Len(args)) => call.result.err # NoError
            /\ (operation = "MOD" /\ Len(args) = 2 /\ args[2] = 0) => call.result.err # NoError

\* the name that the expression of an assignment line calls
callee_of(raw) ==
    LET expr == assignment_parts(raw).expr
    IN  SubSeq(expr, 1, Find(expr, <<"(">>) - 1)

\* the lines of AssignLines whose expression is a call
CallingLines == {raw \in AssignLines : Contains(assignment_parts(raw).expr, <<"(">>)}

\* C25: an expression of rule text reaches no callable other than the
\* Function Library: an assignment whose expression calls a name that is
\* not a library name fails and assigns nothing.
C25_OnlyLibraryCallable ==
    \A raw \in CallingLines :
        (call.fn = "assignments" /\ call.done /\ call.arg.lines = <<raw>>
            /\ callee_of(raw) \notin library_names) =>
            /\ call.result.err # NoError
            /\ call.result.variables = [n \in {} |-> 0]

\* C28: a library name denotes the library operation whatever was assigned
\* before: 'x = SUM(1, 2)' read after any assignment line that succeeded on
\* the same engine succeeds and leaves x = 3.
C28_LibraryNameKeepsMeaning ==
    (/\ call.fn = "assignments"
     /\ call.done
     /\ Len(call.arg.lines) = 2
     /\ call.arg.lines[2] = L_assign_call
     /\ assignments(<<call.arg.lines[1]>>, [n \in {} |-> 0]).err = NoError) =>
        /\ call.result.err = NoError
        /\ call.result.variables[x_name] = 3

\* the non-blank tokens of a line
tokens_of(raw) == Split(Strip(raw))

\* a token of uppercase letters only that is not a keyword
bare_uppercase(word) ==
    /\ word # <<>>
    /\ \A i \in DOMAIN word : word[i] \in UpperChars
    /\ word \notin valid_keywords

\* the rule lines that hold such a token
InvalidKeywordLines ==
    {raw \in RuleLines : \E i \in DOMAIN tokens_of(raw) : bare_uppercase(tokens_of(raw)[i])}

\* the step fails with the given message
FailsWith(msg) ==
    /\ pc' = "loop"
    /\ last_outcome'.kind = "raise"
    /\ last_outcome'.error = Raise("ValueError", msg)

\* C22: a line that holds a bare uppercase token other than a keyword fails
\* with the invalid-keyword error wherever it is read, in a branch that is
\* executing or not and before the block tracker looks at it, and changes
\* neither the block state, the action list nor the Variable Environment.
C22_InvalidKeywordRejectedEverywhere ==
    [][\A raw \in InvalidKeywordLines :
          (LineStep /\ last_line' = raw) =>
              /\ FailsWith("Invalid keyword")
              /\ UNCHANGED <<block_stack, should_evaluate, block_executed,
                             execute_actions, variables>>]_vars

\* C22 witness: 'ENDIF NOW' was rejected for its keyword inside a branch that
\* is not executing, and its block is still open
C22_RejectedInsideSkippedBranch ==
    /\ last_outcome.kind = "raise"
    /\ last_outcome.error = Raise("ValueError", "Invalid keyword")
    /\ last_line = L_endif_now
    /\ ~should_evaluate
    /\ Len(block_stack) = 1

\* the IF and ELSEIF lines without THEN
NoThenLines ==
    {raw \in RuleLines :
        /\ StartsWith(Strip(raw), kw_IF) \/ StartsWith(Strip(raw), kw_ELSEIF)
        /\ ~Contains(raw, kw_THEN)}

\* C23: an IF line without THEN fails with the missing-THEN error; an ELSEIF
\* line without THEN fails with the ELSEIF-without-IF error on an empty block
\* stack and with the missing-THEN error otherwise; both also in a branch
\* that would not be executed.
C23_MissingThenFails ==
    [][\A raw \in NoThenLines :
          (LineStep /\ last_line' = raw) =>
              IF StartsWith(Strip(raw), kw_ELSEIF) /\ block_stack = <<>>
              THEN FailsWith("ELSEIF without matching IF")
              ELSE FailsWith("Missing 'THEN' keyword")]_vars

\* C23 witness: an ELSEIF line without THEN has failed for the missing THEN
\* in a chain whose IF branch had executed
C23_ElseifWithoutThenAfterExecutedBranch ==
    /\ last_outcome.kind = "raise"
    /\ last_outcome.error = Raise("ValueError", "Missing 'THEN' keyword")
    /\ last_line = L_elseif_no_then
    /\ block_executed
    /\ execute_actions # <<>>

\* C24: parse_and_evaluate leaves the context it is given as it was: during
\* and after every call, returned or failed, the context has the same
\* entries with the same mid, data and ts.
C24_ContextUnchanged ==
    /\ Len(agent_context) = Len(context)
    /\ \A i \in DOMAIN context :
          /\ agent_context[i].mid = context[i].mid
          /\ agent_context[i].data = context[i].data
          /\ agent_context[i].ts = context[i].ts

\* C24 witness: on one context, a call has failed and a later call has
\* returned an action, and the Variable Environment holds the value that the
\* substitution loop has put for sensor2
C24_FailedAndReturnedCalls ==
    /\ idx = 3
    /\ log[2] = <<"Error evaluating Rule", 1>>
    /\ last_outcome.kind = "return"
    /\ last_outcome.actions # <<>>
    /\ last_line = L_endif
    /\ variables = (x_name :> 8)

\* C26: a chain nested in an executing branch behaves as a chain at the top:
\* after an inner IF whose condition was false, an inner ELSEIF whose
\* condition is true, or the inner ELSE, makes its body execute.
C26_NestedChainLikeTopLevel ==
    [][\A raw \in RuleLines :
          (/\ LineStep
           /\ pc' = "lines"
           /\ last_line' = raw
           /\ Len(block_stack) >= 2
           /\ block_stack[Len(block_stack)][1]
           /\ of_line(last_line).branch = "IF"
           /\ ~block_executed
           /\ \/ of_line(raw).branch = "ELSE"
              \/ /\ of_line(raw).branch = "ELSEIF"
                 /\ condition_of(of_line(raw), variables) = [err |-> NoError, val |-> TRUE]) =>
              should_evaluate']_vars

\* C27: an ENDIF line that closes a block restores the pair
\* (should_evaluate, block_executed) that held just before the IF line of
\* the block was read, whatever lines were read in between.
C27_EndifRestoresPairBeforeIf ==
    [][(/\ LineStep
        /\ pc' = "lines"
        /\ StartsWith(Strip(last_line'), kw_ENDIF)) =>
            /\ chains # <<>>
            /\ <<should_evaluate', block_executed'>> = chains[Len(chains)].before]_vars

\* C27 witness: an ENDIF has brought back the pair (true, false) of the top
\* level after a chain that recorded an action and had a branch after its ELSE
C27_RestoredAfterElseBranches ==
    /\ pc = "lines"
    /\ last_line = L_endif
    /\ block_stack = <<>>
    /\ ill_formed
    /\ execute_actions # <<>>
    /\ should_evaluate
    /\ ~block_executed

\* C29: nothing is dispatched while the lines are read, and nothing is
\* dispatched or returned by a call that fails, on a line or at the
\* unmatched-block test.
C29_NoDispatchBeforeTheEnd ==
    /\ pc = "lines" => dispatched = <<>>
    /\ last_outcome.kind = "raise" => (dispatched = <<>> /\ last_outcome.actions = <<>>)

\* C29 witness: a call that had recorded an action has failed at the
\* unmatched-block test and has dispatched nothing
C29_UnmatchedAfterRecordedAction ==
    /\ last_outcome.kind = "raise"
    /\ last_outcome.site = "end"
    /\ execute_actions # <<>>
    /\ block_stack # <<>>
    /\ dispatched = <<>>

\* C30: every call of parse_and_evaluate starts with an empty block stack,
\* should_evaluate true, block_executed false and no recorded action,
\* whatever the call before it left.
C30_EveryCallStartsFresh ==
    [][(pc = "loop" /\ pc' = "lines") =>
          /\ block_stack' = <<>>
          /\ should_evaluate'
          /\ ~block_executed'
          /\ execute_actions' = <<>>]_vars

\* C30 witness: the second rule of a batch is the next to be evaluated by an
\* engine whose call on the first rule failed inside an executing IF block
\* with an action recorded
C30_SecondRuleAfterFailureInsideBlock ==
    /\ pc = "loop"
    /\ idx = 2
    /\ Len(rules) = 2
    /\ last_outcome.kind = "raise"
    /\ block_stack # <<>>
    /\ block_executed
    /\ execute_actions # <<>>

\* C31: a call that fails leaves the Variable Environment as the lines before
\* the failure made it: a failing step changes no variable, a line that is
\* read changes at most the variable it assigns, and the next call starts on
\* the Variable Environment that the call before it left.
C31_NoRollbackOfVariables ==
    [][/\ (pc = "lines" /\ last_outcome'.kind = "raise") => variables' = variables
       /\ (pc = "loop" /\ pc' = "lines") => variables' = variables
       /\ (LineStep /\ pc' = "lines" /\ last_line' # <<>>) =>
             LET ln == of_line(last_line')
             IN  \A n \in DOMAIN variables :
                     /\ n \in DOMAIN variables'
                     /\ (ln.branch # "assignment" \/ n # ln.assignment.var_name) =>
                            variables'[n] = variables[n]]_vars

\* C31 witness: the call on the second rule of a batch has started and has
\* read no line yet, the call on the first rule has failed, and x has the
\* value that a line of the first rule assigned
C31_VariableOfFailedRuleVisible ==
    /\ pc = "lines"
    /\ idx = 2
    /\ last_line = <<>>
    /\ log = << <<"Evaluating Rule", 1>>, <<"Error evaluating Rule", 1>>, <<"Evaluating Rule", 2>> >>
    /\ variables = (x_name :> 8)

\* C32: the condition of an IF line is evaluated wherever the line is read,
\* also in a branch that is not executing, and when the evaluation fails
\* the call fails with its exception.
C32_IfConditionAlwaysEvaluated ==
    [][\A ln \in line_table :
          (/\ LineStep
           /\ last_line' = ln.raw
           /\ ln.err = NoError
           /\ ln.branch = "IF"
           /\ ln.has_then
           /\ condition_of(ln, variables).err # NoError) =>
              /\ pc' = "loop"
              /\ last_outcome'.kind = "raise"
              /\ last_outcome'.error = condition_of(ln, variables).err]_vars

\* C32 witness: 'IF (sensor9 > 3) THEN' has failed for its condition inside a
\* branch that is not executing
C32_FailedInsideSkippedBranch ==
    /\ last_outcome.kind = "raise"
    /\ last_outcome.error.type = "NameError"
    /\ last_line = L_if_absent
    /\ ~should_evaluate
    /\ block_stack # <<>>

\* C33: evaluate_rules returns normally for every list: no entry makes it
\* raise, and when it has returned every entry of the batch was evaluated
\* or reported.
C33_EvaluateRulesAlwaysReturns ==
    /\ pc # "aborted"
    /\ (pc = "idle" /\ rules # <<>>) =>
          \A i \in DOMAIN rules : \E k \in DOMAIN log : log[k][2] = i

\* a text without the single quotes around it
unquoted(text) ==
    IF Len(text) >= 2 /\ text[1] = "'" /\ text[Len(text)] = "'"
    THEN SubSeq(text, 2, Len(text) - 1)
    ELSE text

\* the rule object has a non-empty expression and the serial of this device
for_this_device(obj) ==
    /\ "expression" \in DOMAIN obj
    /\ obj.expression.text # <<>>
    /\ "device_serial" \in DOMAIN obj
    /\ unquoted(obj.device_serial.text) = device_serial.text

\* the list holds a rule with the expression of the rule object
holds_rule_of(list, obj) == \E i \in DOMAIN list : list[i].expression = obj.expression

\* C34: append_rule stores a rule only when the rule object has a non-empty
\* expression and, with the single quotes around it taken off, the serial of
\* this device: then the rule is in the list it writes and it returns True;
\* in every other case it returns False and leaves the file as it is.
C34_StoredOnlyForThisDevice ==
    [][/\ \A obj \in RuleObjects :
            (mqtt_thread.pc = "idle" /\ mqtt_thread' # mqtt_thread /\ mqtt_thread'.obj = obj) =>
                IF for_this_device(obj)
                THEN /\ mqtt_thread'.pc = "save"
                     /\ holds_rule_of(mqtt_thread'.pending, obj)
                ELSE /\ mqtt_thread'.pc = "idle"
                     /\ mqtt_thread'.result = "False"
                     /\ rules_file' = rules_file
       /\ rules_file' # rules_file => for_this_device(mqtt_thread.obj)
       /\ (mqtt_thread.pc = "dump" /\ mqtt_thread'.pc = "idle") =>
            /\ mqtt_thread'.result = "True"
            /\ holds_rule_of(read_rules(rules_file'), mqtt_thread.obj)]_vars

\* C34 witness: a rule object with the serial of another device and the
\* rule_id of the stored rule was refused, and the stored rule is as it was
C34_RefusedForOtherDevice ==
    /\ mqtt_thread.pc = "idle"
    /\ mqtt_thread.result = "False"
    /\ mqtt_thread.obj = [expression |-> Str(<<"a">>), device_serial |-> other_serial,
                          rule_id |-> Str(<<"r", "1">>)]
    /\ rules_file = [state |-> "complete",
                     rules |-> <<[expression |-> Str(<<"b">>), rule_id |-> Str(<<"r", "1">>)]>>]

\* no two rules of the list have the same rule_id
NoSharedRuleId(list) ==
    \A i, j \in DOMAIN list :
        ("rule_id" \in DOMAIN list[i] /\ "rule_id" \in DOMAIN list[j] /\ i # j) =>
            list[i].rule_id # list[j].rule_id

\* C35: no two stored rules share a rule_id, and the list that an accepted
\* append_rule writes is the stored list with the rule of the same rule_id
\* replaced in place, or, when no stored rule has its rule_id or it has
\* none, with the rule appended at the end.
C35_ReplacedInPlaceOrAppended ==
    /\ [](NoSharedRuleId(read_rules(rules_file)))
    /\ [][(mqtt_thread.pc = "idle" /\ mqtt_thread'.pc = "save") =>
            LET obj == mqtt_thread'.obj
                stored == mqtt_thread'.before
                written == mqtt_thread'.pending
                same_id == {i \in DOMAIN stored :
                              /\ "rule_id" \in DOMAIN obj
                              /\ "rule_id" \in DOMAIN stored[i]
                              /\ stored[i].rule_id = obj.rule_id}
            IN  IF same_id # {}
                THEN /\ Len(written) = Len(stored)
                     /\ \A i \in DOMAIN stored :
                           IF i \in same_id THEN written[i].expression = obj.expression
                           ELSE written[i] = stored[i]
                ELSE /\ Len(written) = Len(stored) + 1
                     /\ SubSeq(written, 1, Len(stored)) = stored
                     /\ written[Len(written)].expression = obj.expression]_vars

\* C36: a load_rules that runs while append_rule is running returns the list
\* as it was before the append or as it is after it.
C36_LoadSeesBeforeOrAfter ==
    main_thread.overlapped => main_thread.loaded \in {main_thread.before, main_thread.after}

====
